---- MODULE Spec2Model ----
(***************************************************************************)
(* Token pool and proxy retry pipeline of the VariFlight MCP proxy         *)
(* (src/main.py; src/tools/variflight.py carries the same code).           *)
(*                                                                         *)
(* The process is a single asyncio event loop: a coroutine runs without    *)
(* interruption between two awaits.  Every action below is one such        *)
(* uninterrupted stretch of one request's coroutine, so the TokenManager   *)
(* methods (which never await) are atomic inside the action calling them.  *)
(***************************************************************************)
EXTENDS Integers, Sequences, FiniteSets, Bags, TLC

\* ---------------------------------------------------------------- bounds
MaxLines == 2        \* qualifying lines in the account file
NumSlots == 2        \* requests in flight together
MaxSelections == 3   \* tokens handed out by get_next_token in all
MaxRetriesArg == 3   \* largest max_retries argument explored
MaxEpoch == 1        \* restarts of the process
MaxHeaders == 3      \* headers of one inbound request
MaxTokenLen == 25    \* characters of the longest token shown by /blacklist
MaxUpstreamHeaders == 2  \* header lines of one upstream response
MaxChunks == 2       \* chunks of one upstream response body
SoloSelections == 4  \* tokens handed out in all when requests come singly
MaxInstances == 2    \* tool instances created by register_tool in all
MaxTasks == 2        \* registry coroutines suspended together
MaxDeps == 1         \* dependencies one register_tool call declares

\* ------------------------------------------------------------- constants
None == "None"
TokenOrder == <<"sk-a", "sk-b", "sk-c">>
SkTokens == {TokenOrder[k] : k \in DOMAIN TokenOrder}
Slots == 1..NumSlots

Range(s) == {s[i] : i \in DOMAIN s}

Count(t, s) == Cardinality({i \in DOMAIN s : s[i] = t})

\* s is t with some entries deleted (order kept)
RECURSIVE IsSubSeq(_, _)
IsSubSeq(s, t) ==
    IF s = <<>> THEN TRUE
    ELSE IF t = <<>> THEN FALSE
    ELSE IF Head(s) = Head(t) THEN IsSubSeq(Tail(s), Tail(t))
    ELSE IsSubSeq(s, Tail(t))

\* ------------------------------------------------------- the two files
\* A line of the account file, as line.split('|') sees it.
AccountLine(t) == <<"user", "pass", t>>
AccountLines == {AccountLine(t) : t \in SkTokens}

\* Tokens are opaque strings, so account files that differ only by a renaming
\* of tokens behave alike: one file is kept per renaming class, the one whose
\* tokens make their first appearance in the order of TokenOrder.
Canonical(f) ==
    \A i \in DOMAIN f : \A k \in 2..Len(TokenOrder) :
        f[i][3] = TokenOrder[k] =>
            \E j \in 1..(i - 1) : f[j][3] = TokenOrder[k - 1]

AccountFiles ==
    {f \in UNION {[1..n -> AccountLines] : n \in 1..MaxLines} : Canonical(f)}

\* token.startswith('sk-')
startswith_sk(token) == token \in SkTokens

\* The blacklist file: absent, a pickle of a set, or bytes pickle.load rejects.
MissingFile == [kind |-> "missing", val |-> {}]
CorruptFile == [kind |-> "corrupt", val |-> {}]
pickle_dump(s) == [kind |-> "pickle", val |-> s]

WriteOutcomes == {"ok", "open_failed", "partial"}

load_blacklist_m(file) ==
    IF file.kind = "pickle" THEN file.val ELSE SkTokens

\* TokenManager.load_blacklist: the set stays empty when the file is absent,
\* and is reset to empty when reading it raises.
load_blacklist(file) ==
    IF file.kind = "missing" THEN {}
    ELSE IF file.kind = "pickle" THEN file.val
    ELSE {}

\* TokenManager.save_blacklist: open(..., 'wb') then pickle.dump; every
\* exception is logged and swallowed.  w = "open_failed": the file is left
\* as it was; w = "partial": the file was truncated and not fully written.
save_blacklist(file, blacklisted, w) ==
    IF w = "ok" THEN pickle_dump(blacklisted)
    ELSE IF w = "open_failed" THEN file
    ELSE CorruptFile

\* The same function without the test on the number of fields.
RECURSIVE load_tokens_m(_, _)
load_tokens_m(lines, blacklisted) ==
    IF lines = <<>> THEN <<>>
    ELSE LET parts == Head(lines)
             rest == load_tokens_m(Tail(lines), blacklisted)
         IN IF startswith_sk(parts[Len(parts)])
               /\ parts[Len(parts)] \notin blacklisted
            THEN <<parts[Len(parts)]>> \o rest
            ELSE rest

\* TokenManager.load_tokens: the list of tokens the lines yield, in order.
RECURSIVE load_tokens(_, _)
load_tokens(lines, blacklisted) ==
    IF lines = <<>> THEN <<>>
    ELSE LET parts == Head(lines)
             rest == load_tokens(Tail(lines), blacklisted)
         IN IF Len(parts) >= 3
               /\ startswith_sk(parts[Len(parts)])
               /\ parts[Len(parts)] \notin blacklisted
            THEN <<parts[Len(parts)]>> \o rest
            ELSE rest

\* main.py:79-80: load_tokens raises when it loaded nothing, and with it
\* TokenManager() at module level (main.py:280)
startup_ok_m(toks) == TRUE

startup_ok(toks) == toks # <<>>

\* Lines of every kind load_tokens tells apart, split at '|': a blank line,
\* two fields, a last field without the prefix, an empty last field, three
\* fields, and four (a '|' inside the password).
FileLines ==
    {<<"">>, <<"user", "sk-a">>, <<"user", "pass", "token-a">>,
     <<"user", "pass", "">>, <<"user", "pass", "sk-a">>,
     <<"user", "pass", "sk-b">>, <<"user", "pa", "ss", "sk-b">>}

LoadArgs ==
    [lines : UNION {[1..n -> FileLines] : n \in 0..(MaxLines + 1)},
     blacklisted : SUBSET {"sk-a", "sk-b"}]

TokenManager_init_m(accounts, file) ==
    [blacklisted |-> load_blacklist(file),
     tokens |-> load_tokens(accounts, {})]

\* TokenManager.__init__: load_blacklist, then load_tokens
TokenManager_init(accounts, file) ==
    LET bl == load_blacklist(file)
    IN [blacklisted |-> bl, tokens |-> load_tokens(accounts, bl)]

\* --------------------------------------------------------- TokenManager
available_tokens_m(toks, failed, blacklisted) ==
    SelectSeq(toks, LAMBDA t : t \notin failed)

available_tokens_m2(toks, failed, blacklisted) ==
    SelectSeq(toks, LAMBDA t : t \notin blacklisted)

\* main.py:95-96
available_tokens(toks, failed, blacklisted) ==
    SelectSeq(toks, LAMBDA t : t \notin failed /\ t \notin blacklisted)

available_after_reset_m(toks, blacklisted) == toks

\* main.py:101
available_after_reset(toks, blacklisted) ==
    SelectSeq(toks, LAMBDA t : t \notin blacklisted)

get_next_token_m(toks, failed, blacklisted, index) ==
    IF toks = <<>>
    THEN [ret |-> None, failed |-> failed, index |-> index, cleared |-> FALSE]
    ELSE LET av == SelectSeq(toks, LAMBDA t : t \notin failed
                                              /\ t \notin blacklisted)
         IN IF av # <<>>
            THEN [ret |-> av[(index % Len(av)) + 1], failed |-> failed,
                  index |-> index + 1, cleared |-> FALSE]
            ELSE [ret |-> None, failed |-> {}, index |-> index,
                  cleared |-> TRUE]

get_next_token_m2(toks, failed, blacklisted, index) ==
    IF toks = <<>>
    THEN [ret |-> None, failed |-> failed, index |-> index, cleared |-> FALSE]
    ELSE LET av == available_tokens(toks, failed, blacklisted)
             av2 == available_after_reset(toks, blacklisted)
         IN IF av # <<>>
            THEN [ret |-> av[(index % Len(av)) + 1], failed |-> failed,
                  index |-> index, cleared |-> FALSE]
            ELSE IF av2 = <<>>
            THEN [ret |-> None, failed |-> {}, index |-> index,
                  cleared |-> TRUE]
            ELSE [ret |-> av2[(index % Len(av2)) + 1], failed |-> {},
                  index |-> index, cleared |-> TRUE]

\* the cursor is not advanced by the call that cleared failed_tokens
get_next_token_m3(toks, failed, blacklisted, index) ==
    IF toks = <<>>
    THEN [ret |-> None, failed |-> failed, index |-> index, cleared |-> FALSE]
    ELSE LET av == available_tokens(toks, failed, blacklisted)
             av2 == available_after_reset(toks, blacklisted)
         IN IF av # <<>>
            THEN [ret |-> av[(index % Len(av)) + 1], failed |-> failed,
                  index |-> index + 1, cleared |-> FALSE]
            ELSE IF av2 = <<>>
            THEN [ret |-> None, failed |-> {}, index |-> index,
                  cleared |-> TRUE]
            ELSE [ret |-> av2[(index % Len(av2)) + 1], failed |-> {},
                  index |-> index, cleared |-> TRUE]

\* the cursor is kept modulo the number of available tokens
get_next_token_m4(toks, failed, blacklisted, index) ==
    IF toks = <<>>
    THEN [ret |-> None, failed |-> failed, index |-> index, cleared |-> FALSE]
    ELSE LET av == available_tokens(toks, failed, blacklisted)
             av2 == available_after_reset(toks, blacklisted)
         IN IF av # <<>>
            THEN [ret |-> av[(index % Len(av)) + 1], failed |-> failed,
                  index |-> (index + 1) % Len(av), cleared |-> FALSE]
            ELSE IF av2 = <<>>
            THEN [ret |-> None, failed |-> {}, index |-> index,
                  cleared |-> TRUE]
            ELSE [ret |-> av2[(index % Len(av2)) + 1], failed |-> {},
                  index |-> (index + 1) % Len(av2), cleared |-> TRUE]

\* TokenManager.get_next_token: the token returned (or None), the failed set
\* and the cursor it leaves behind, and whether failed_tokens.clear() ran.
get_next_token(toks, failed, blacklisted, index) ==
    IF toks = <<>>
    THEN [ret |-> None, failed |-> failed, index |-> index, cleared |-> FALSE]
    ELSE LET av == available_tokens(toks, failed, blacklisted)
             av2 == available_after_reset(toks, blacklisted)
         IN IF av # <<>>
            THEN [ret |-> av[(index % Len(av)) + 1], failed |-> failed,
                  index |-> index + 1, cleared |-> FALSE]
            ELSE IF av2 = <<>>
            THEN [ret |-> None, failed |-> {}, index |-> index,
                  cleared |-> TRUE]
            ELSE [ret |-> av2[(index % Len(av2)) + 1], failed |-> {},
                  index |-> index + 1, cleared |-> TRUE]

mark_token_failed_m(failed, token) == failed

\* TokenManager.mark_token_failed
mark_token_failed(failed, token) == failed \cup {token}

\* list.remove(x): deletes the first entry equal to x
RECURSIVE list_remove(_, _)
list_remove(s, x) ==
    IF s = <<>> THEN <<>>
    ELSE IF Head(s) = x THEN Tail(s)
    ELSE <<Head(s)>> \o list_remove(Tail(s), x)

blacklist_token_m(toks, failed, blacklisted, file, token, w) ==
    IF token \in blacklisted
    THEN [tokens |-> toks, failed |-> failed, blacklisted |-> blacklisted,
          file |-> file, changed |-> FALSE]
    ELSE [tokens |-> list_remove(toks, token),
          failed |-> failed \ {token},
          blacklisted |-> {token},
          file |-> save_blacklist(file, {token}, w),
          changed |-> TRUE]

blacklist_token_m2(toks, failed, blacklisted, file, token, w) ==
    IF token \in blacklisted
    THEN [tokens |-> toks, failed |-> failed, blacklisted |-> blacklisted,
          file |-> file, changed |-> FALSE]
    ELSE [tokens |-> list_remove(toks, token),
          failed |-> failed \ {token},
          blacklisted |-> blacklisted \cup {token},
          file |-> save_blacklist(file, blacklisted, w),
          changed |-> TRUE]

\* without the early return for a token already blacklisted
blacklist_token_m3(toks, failed, blacklisted, file, token, w) ==
    LET bl == blacklisted \cup {token}
    IN [tokens |-> IF token \in Range(toks)
                   THEN list_remove(toks, token) ELSE toks,
        failed |-> failed \ {token},
        blacklisted |-> bl,
        file |-> save_blacklist(file, bl, w),
        changed |-> TRUE]

\* TokenManager.blacklist_token
blacklist_token(toks, failed, blacklisted, file, token, w) ==
    IF token \in blacklisted
    THEN [tokens |-> toks, failed |-> failed, blacklisted |-> blacklisted,
          file |-> file, changed |-> FALSE]
    ELSE LET bl == blacklisted \cup {token}
         IN [tokens |-> IF token \in Range(toks)
                        THEN list_remove(toks, token) ELSE toks,
             failed |-> failed \ {token},
             blacklisted |-> bl,
             file |-> save_blacklist(file, bl, w),
             changed |-> TRUE]

get_stats_m(toks, failed, blacklisted) ==
    [total_loaded_tokens |-> Len(toks),
     temporarily_failed_tokens |-> Cardinality(failed),
     permanently_blacklisted_tokens |-> Cardinality(blacklisted),
     available_tokens |->
        Len(SelectSeq(toks, LAMBDA t : t \notin failed))]

\* TokenManager.get_stats
get_stats(toks, failed, blacklisted) ==
    [total_loaded_tokens |-> Len(toks),
     temporarily_failed_tokens |-> Cardinality(failed),
     permanently_blacklisted_tokens |-> Cardinality(blacklisted),
     available_tokens |->
        Len(SelectSeq(toks, LAMBDA t : t \notin failed /\ t \notin blacklisted))]

\* ------------------------------------------------------------- upstream
\* What one upstream call can end in: a status line (the body of a generic
\* error response readable or not), an aiohttp.ClientError, or an exception
\* that is not a ClientError, such as the asyncio.TimeoutError raised when the
\* session's total timeout (main.py:164) runs out.
OtherStatuses == {500}
Statuses == {200, 401, 403, 429} \cup OtherStatuses
Outcomes ==
    [kind : {"status"}, status : Statuses]
    \cup [kind : {"body_error"}, status : OtherStatuses]
    \cup [kind : {"client_error", "exception"}, status : {0}]
NoOutcome == [kind |-> "none", status |-> 0]

is_auth_failure_m(status) == status = 401

\* main.py:234  response.status in [401, 403]
is_auth_failure(status) == status \in {401, 403}

is_rate_limited_m(status) == status \in {429, 500}

\* main.py:242  response.status == 429
is_rate_limited(status) == status = 429

\* main.py:239, 246, 253: the branches of outcome o that reach
\* `await response.release()`.  A 200 response is returned unreleased; when
\* response.text() raises (main.py:252) control leaves the try block before
\* the release of line 253.
releases(o) == o.kind = "status" /\ o.status # 200

more_attempts_m(attempt, max_retries) == attempt <= max_retries

\* main.py:205  for attempt in range(max_retries)
more_attempts(attempt, max_retries) == attempt < max_retries

\* main.py:256, 265  attempt == max_retries - 1
is_last_attempt(attempt, max_retries) == attempt = max_retries - 1

NoResult == [kind |-> "none", status |-> 0, detail |-> "none"]
Response200 == [kind |-> "response", status |-> 200, detail |-> "none"]
HTTPException(status, detail) ==
    [kind |-> "http_error", status |-> status, detail |-> detail]
OtherException == [kind |-> "exception", status |-> 0, detail |-> "none"]

\* The route handler (main.py:459-463): an HTTPException is re-raised as it
\* is, any other exception becomes a 500.
route_error_status(result) ==
    IF result.kind = "http_error" THEN result.status ELSE 500

\* ------------------------------------------------------ the route handler
\* main.py:362  methods the catch-all route accepts
HttpMethods == {"GET", "POST", "PUT", "DELETE", "PATCH", "OPTIONS", "HEAD"}

\* main.py:372  request.method in ["POST", "PUT", "PATCH"]
reads_body(method) == method \in {"POST", "PUT", "PATCH"}

\* A key that a JSON object does not have.
Absent == "absent"

\* The bytes of a request body, by what bytes.decode('utf-8'), json.loads and
\* dict.get make of them.  kind: "None" (Python None, no bytes were read),
\* "empty" (b""), "bad_utf8", "bad_json" (text that is not JSON), "json";
\* type: the type of the JSON value; method, id: the members of a JSON object.
Payload(kind, type, method, id) ==
    [kind |-> kind, type |-> type, method |-> method, id |-> id]
NoBody == Payload("None", "none", Absent, Absent)
EmptyBytes == Payload("empty", "none", Absent, Absent)
BadUtf8 == Payload("bad_utf8", "none", Absent, Absent)
BadJson == Payload("bad_json", "none", Absent, Absent)
JsonArray == Payload("json", "array", Absent, Absent)
JsonString == Payload("json", "string", Absent, Absent)
JsonObject(method, id) == Payload("json", "object", method, id)

BodyMethods == {"ping", "notifications/initialized", "tools/list", Absent}
BodyIds == {"7", Absent}
Payloads ==
    {EmptyBytes, BadUtf8, BadJson, JsonArray, JsonString}
    \cup {JsonObject(m, i) : m \in BodyMethods, i \in BodyIds}

\* An inbound request: its HTTP method and the bytes sent as its body.
Requests == [method : HttpMethods, body : Payloads]
NoRequest == [method |-> "none", body |-> NoBody]

\* main.py:375  `if body:` is false for None and for b""
truthy(body) == body.kind \notin {"None", "empty"}

\* dict.get(key): the member, or None when the object has no such key
dict_get(member) == IF member = Absent THEN None ELSE member

\* main.py:377-378: the exception that body.decode('utf-8'), json.loads and
\* request_data.get raise on these bytes, "none" when they raise nothing.
parse_raises(body) ==
    IF body.kind = "bad_utf8" THEN "UnicodeDecodeError"
    ELSE IF body.kind # "json" THEN "JSONDecodeError"
    ELSE IF body.type # "object" THEN "AttributeError"
    ELSE "none"

\* main.py:407  except (json.JSONDecodeError, KeyError, AttributeError)
InterceptorCaught == {"JSONDecodeError", "KeyError", "AttributeError"}

\* main.py:380
is_ping(method) == method = "ping"

\* main.py:396
is_initialized(method) == method = "notifications/initialized"

\* The content of a response: the members of its JSON object, no member for
\* an empty body.
EmptyContent == {}
\* main.py:382-386
ping_response(id) ==
    {<<"jsonrpc", "2.0">>, <<"id", id>>, <<"result", "{}">>}

\* What the route handler does with a request before any await on upstream
\* (main.py:370-420, 459-463): it answers it (kind "reply"), raises
\* (kind "error"), or calls proxy_request with fwd (kind "dispatch").
Decision(kind, status, content, fwd) ==
    [kind |-> kind, status |-> status, content |-> content, fwd |-> fwd]

route_decision(req) ==
    LET body == IF reads_body(req.method) THEN req.body ELSE NoBody
        forward == Decision("dispatch", 0, EmptyContent,
                            [method |-> req.method, body |-> body])
    IN IF ~truthy(body) THEN forward
       ELSE IF parse_raises(body) \in InterceptorCaught THEN forward
       ELSE IF parse_raises(body) # "none"
       THEN Decision("error", 500, EmptyContent, NoRequest)
       ELSE IF is_ping(dict_get(body.method))
       THEN Decision("reply", 200, ping_response(dict_get(body.id)),
                     NoRequest)
       ELSE IF is_initialized(dict_get(body.method))
       THEN Decision("reply", 202, EmptyContent, NoRequest)
       ELSE forward

\* main.py:199  the max_retries the route's call of proxy_request gets
DefaultMaxRetries == 3

\* -------------------------------------------------------- request headers
\* A header value is the list of its comma-separated items; v1, v2 is
\* Append(v1, v2) and the substring test 'item in value' is membership.
EventStream == "text/event-stream"
AppJson == "application/json"
DefaultAccept == <<AppJson, EventStream>>
DefaultUserAgent == <<"MCP-Proxy/1.0.0">>

\* str.lower() on the header names used here
lower(k) ==
    CASE k = "Host" -> "host"
      [] k = "Connection" -> "connection"
      [] k = "TE" -> "te"
      [] k = "Accept" -> "accept"
      [] k = "User-Agent" -> "user-agent"
      [] k = "Content-Type" -> "content-type"
      [] k = "Content-Length" -> "content-length"
      [] k = "Set-Cookie" -> "set-cookie"
      [] OTHER -> k

\* main.py:155-158
skip_headers ==
    {"host", "content-length", "connection", "upgrade", "proxy-connection",
     "proxy-authorization", "te", "trailers"}

\* The inbound headers: a dict, so the keys are told apart by letter case.
InboundNames ==
    {"Host", "host", "Connection", "TE", "proxy-authorization",
     "Accept", "accept", "User-Agent", "user-agent", "x-trace-id"}
AcceptValues == {<<"text/plain">>, <<EventStream>>, <<AppJson, EventStream>>}
OtherValue == <<"v">>
values_of(k) == IF lower(k) = "accept" THEN AcceptValues ELSE {OtherValue}
InboundHeaders ==
    UNION {{h \in [D -> AcceptValues \cup {OtherValue}] :
                \A k \in D : h[k] \in values_of(k)} :
           D \in {E \in SUBSET InboundNames : Cardinality(E) <= MaxHeaders}}

\* headers[k] = v
dict_set(h, k, v) ==
    [x \in (DOMAIN h) \cup {k} |-> IF x = k THEN v ELSE h[x]]

\* main.py:179-181: the copy loop
copy_unskipped(original_headers) ==
    [k \in {x \in DOMAIN original_headers : lower(x) \notin skip_headers}
        |-> original_headers[k]]

\* main.py:184-188: the look-up is by the key 'accept', the store under 'Accept'
ensure_accept(headers) ==
    IF "accept" \notin DOMAIN headers
    THEN dict_set(headers, "Accept", DefaultAccept)
    ELSE IF EventStream \notin Range(headers["accept"])
    THEN dict_set(headers, "Accept", Append(headers["accept"], EventStream))
    ELSE headers

\* main.py:191-192
ensure_user_agent(headers) ==
    IF "user-agent" \notin DOMAIN headers
    THEN dict_set(headers, "User-Agent", DefaultUserAgent)
    ELSE headers

\* MCPProxy._prepare_headers
prepare_headers(original_headers) ==
    ensure_user_agent(ensure_accept(copy_unskipped(original_headers)))

\* ------------------------------------------------------ the /blacklist page
\* main.py:342-346
PreviewMax == 10
PreviewLen == 20
Ellipsis == <<".", ".", ".">>

\* A token as the string of its characters: "sk-" and n - 3 more.
TokenOfLen(n) == [i \in 1..n |-> IF i = 1 THEN "s" ELSE IF i = 2 THEN "k"
                                 ELSE IF i = 3 THEN "-" ELSE "x"]
MinTokenLen == 15
LongTokens == {TokenOfLen(n) : n \in MinTokenLen..MaxTokenLen}

\* token[:n]
str_prefix(t, n) == SubSeq(t, 1, IF Len(t) < n THEN Len(t) ELSE n)

\* one entry of the preview
preview_entry(token) ==
    [token_preview |-> str_prefix(token, PreviewLen) \o Ellipsis,
     full_length |-> Len(token)]

\* list(blacklisted_tokens)[:10]: the first ten in the set's iteration order,
\* which is any order
first_ten(blacklisted) ==
    {c \in SUBSET blacklisted :
        Cardinality(c) = IF Cardinality(blacklisted) < PreviewMax
                         THEN Cardinality(blacklisted) ELSE PreviewMax}

\* get_blacklist, shown holds the tokens that came first.  The preview is
\* kept as the set of its entries.
get_blacklist(blacklisted, shown) ==
    [total_blacklisted |-> Cardinality(blacklisted),
     preview |-> {preview_entry(t) : t \in shown}]

\* ------------------------------------------------------ response headers
\* main.py:424-427
skip_response_headers ==
    {"content-length", "content-encoding", "transfer-encoding", "connection",
     "upgrade", "proxy-connection"}

\* The header lines of an upstream response, <<name, value>> each: a
\* multidict, in which a name may come more than once.
ResponseLines ==
    {<<"Content-Type", "text/event-stream">>,
     <<"content-type", "application/x-ndjson">>,
     <<"content-type", "application/json">>,
     <<"Content-Length", "v1">>, <<"transfer-encoding", "v1">>,
     <<"set-cookie", "v1">>, <<"set-cookie", "v2">>,
     <<"x-request-id", "v1">>}
UpstreamHeaders ==
    UNION {[1..n -> ResponseLines] : n \in 0..MaxUpstreamHeaders}

EmptyDict == [x \in {} |-> ""]

\* main.py:429-431: the loop over upstream_response.headers.items(), acc
\* being response_headers so far
RECURSIVE filter_response_headers(_, _)
filter_response_headers(lines, acc) ==
    IF lines = <<>> THEN acc
    ELSE filter_response_headers(
            Tail(lines),
            IF lower(Head(lines)[1]) \notin skip_response_headers
            THEN dict_set(acc, Head(lines)[1], Head(lines)[2])
            ELSE acc)

\* main.py:434: headers.get('content-type', '').lower(), the first line of
\* that name in any letter case
content_type_of(lines) ==
    LET idx == {i \in DOMAIN lines : lower(lines[i][1]) = "content-type"}
    IN IF idx = {} THEN ""
       ELSE lines[CHOOSE i \in idx : \A j \in idx : i <= j][2]

\* main.py:436
is_streaming(content_type) ==
    content_type \in {"text/event-stream", "application/x-ndjson"}

NoCall == [fn |-> "none", arg |-> <<>>, ret |-> <<>>]
NoRelay ==
    [pc |-> "none", upstream |-> <<>>, headers |-> EmptyDict,
     streamed |-> FALSE, total |-> 0, sent |-> 0, held |-> FALSE,
     exit |-> "none"]

\* registry.py:30-35: ToolRegistry.__init__.  keys: the names in _tools in
\* insertion order; inst: _tools (0: the name is not a key); deps:
\* _tool_dependencies (NoDeps: the name is not a key); instances: every tool
\* instance created so far with the name it was created under and its
\* status; lock: _lock is held (by the one unregister_tool that is
\* suspended); tasks: the bag of suspended coroutines; step: history, the
\* step just taken.  _tool_classes is written and never read, and is left
\* out.
ToolNames == {"a", "b"}
NoDeps == <<None>>
NoTask ==
    [op |-> "none", pc |-> "idle", name |-> None, inst |-> 0,
     sorted |-> <<>>, pos |-> 0, started |-> {}, size |-> 0,
     alone |-> FALSE, inits_ok |-> FALSE]
NoRegistryStep ==
    [op |-> "none", deps_ok |-> FALSE, invoked |-> FALSE, unmet |-> FALSE,
     ret |-> None, alone |-> FALSE, inits_ok |-> FALSE]
\* registry.py:401-402: _global_registry before get_tool_registry is called
NoRegistry == None
EmptyRegistry ==
    [keys |-> <<>>,
     inst |-> [n \in ToolNames |-> 0],
     deps |-> [n \in ToolNames |-> NoDeps],
     instances |-> <<>>,
     lock |-> FALSE,
     tasks |-> EmptyBag,
     step |-> NoRegistryStep]

\* ---------------------------------------------------------------- state
VARIABLES
    accounts_file,       \* the account file: a sequence of split lines
    blacklist_file,      \* the blacklist file on disk
    running,             \* TokenManager() was constructed (startup succeeded)
    tokens,              \* TokenManager.tokens
    current_index,       \* TokenManager.current_index
    failed_tokens,       \* TokenManager.failed_tokens
    blacklisted_tokens,  \* TokenManager.blacklisted_tokens
    disp,                \* per request slot: the frame of proxy_request
    epoch,               \* number of restarts so far
    prior_blacklisted,   \* history: tokens blacklisted in earlier lifetimes
    saves_ok,            \* history: no write of the blacklist file has failed
    last,                \* history: the step just taken
    max_retries_arg,     \* the max_retries proxy_request is called with
    nselected,           \* history: tokens handed out by get_next_token
    picked,              \* history: the tokens get_next_token returned since
                         \* the list of available tokens last changed
    call,                \* history: the function just applied, its argument
                         \* and what it returned
    relay,               \* the relay of one upstream 200 response
    registry             \* the ToolRegistry and its tools (core/registry.py)

vars == <<accounts_file, blacklist_file, running, tokens, current_index,
          failed_tokens, blacklisted_tokens, disp, epoch,
          prior_blacklisted, saves_ok, last, max_retries_arg, nselected,
          picked, call, relay, registry>>

IdleFrame ==
    [pc |-> "idle", attempt |-> 0, max_retries |-> 0, token |-> None,
     nsel |-> 0, ncalls |-> 0, nclassified |-> 0, avail_before |-> 0]

NoStep ==
    [op |-> "init", d |-> 0, token |-> None, outcome |-> NoOutcome,
     write |-> "none", changed |-> FALSE, result |-> NoResult,
     cleared |-> FALSE, released |-> FALSE, req |-> NoRequest,
     route |-> Decision("none", 0, EmptyContent, NoRequest)]

\* op: the step; d: the dispatch that took it; token: the token selected or
\* classified; outcome: the upstream outcome classified; write, changed: the
\* file write made and whether blacklisted_tokens changed; result: what the
\* dispatch returned or raised in this step (NoResult: it goes on); cleared:
\* get_next_token emptied failed_tokens in this step; released: the step
\* released the upstream response it classified; req, route: the
\* inbound request the route handler took up in this step and what it did
\* with it.
Step(op, d, token, outcome, write, changed, result) ==
    [op |-> op, d |-> d, token |-> token, outcome |-> outcome,
     write |-> write, changed |-> changed, result |-> result,
     cleared |-> FALSE, released |-> FALSE, req |-> NoRequest,
     route |-> Decision("none", 0, EmptyContent, NoRequest)]

\* picked after a step: before and after are the lists of available tokens
\* around the step, ret is what get_next_token returned in it (None: no call,
\* or no token).
picked_after(before, after, ret) ==
    IF before = after
    THEN IF ret = None THEN picked ELSE Append(picked, ret)
    ELSE IF ret = None THEN <<>> ELSE <<ret>>

\* TokenManager.__init__ against the files on disk: load_blacklist, then
\* load_tokens, which raises when no token is left.
InitProxy ==
    /\ accounts_file \in AccountFiles
    /\ blacklist_file = MissingFile
    /\ blacklisted_tokens =
            TokenManager_init(accounts_file, blacklist_file).blacklisted
    /\ tokens = TokenManager_init(accounts_file, blacklist_file).tokens
    /\ running = startup_ok(tokens)
    /\ current_index = 0
    /\ failed_tokens = {}
    /\ disp = [d \in Slots |-> IdleFrame]
    /\ epoch = 0
    /\ prior_blacklisted = {}
    /\ saves_ok = TRUE
    /\ last = NoStep
    /\ max_retries_arg \in 0..MaxRetriesArg
    /\ nselected = 0
    /\ picked = <<>>
    /\ call = NoCall
    /\ relay = NoRelay

\* The proxy never asks for the tool registry, which stays unconstructed.
Init ==
    /\ InitProxy
    /\ registry = NoRegistry

\* The process is stopped and started again on the same two files.
Restart ==
    /\ epoch < MaxEpoch
    /\ epoch' = epoch + 1
    /\ blacklisted_tokens' =
            TokenManager_init(accounts_file, blacklist_file).blacklisted
    /\ tokens' = TokenManager_init(accounts_file, blacklist_file).tokens
    /\ running' = startup_ok(tokens')
    /\ current_index' = 0
    /\ failed_tokens' = {}
    /\ disp' = [d \in Slots |-> IdleFrame]
    /\ UNCHANGED nselected
    /\ picked' = <<>>
    /\ prior_blacklisted' = prior_blacklisted \cup blacklisted_tokens
    /\ last' = Step("restart", 0, None, NoOutcome, "none", FALSE, NoResult)
    /\ UNCHANGED <<max_retries_arg, accounts_file, blacklist_file, saves_ok>>
    /\ UNCHANGED <<call, relay, registry>>

\* The token selections a running dispatch may still make.
StillToSelect(f) ==
    IF f.pc = "loop" THEN f.max_retries - f.attempt
    ELSE IF f.pc = "await" THEN f.max_retries - f.attempt - 1
    ELSE 0

\* The same, summed over slots 1..n.
RECURSIVE Reserved(_)
Reserved(n) == IF n = 0 THEN 0 ELSE StillToSelect(disp[n]) + Reserved(n - 1)

\* proxy_request is called with max_retries = mr, in the lowest free slot,
\* for inbound request req on decision dec of the route handler.
\* A call is explored only if the selections it may make fit MaxSelections.
Enter(d, mr, req, dec) ==
    /\ running
    /\ mr = max_retries_arg
    /\ disp[d].pc = "idle"
    /\ \A e \in 1..(d - 1) : disp[e].pc # "idle"
    /\ nselected + Reserved(NumSlots) + mr <= MaxSelections
    /\ UNCHANGED <<nselected, picked>>
    /\ disp' = [disp EXCEPT ![d] = [IdleFrame EXCEPT !.pc = "loop",
                                                     !.max_retries = mr]]
    /\ last' = [Step("begin", d, None, NoOutcome, "none", FALSE, NoResult)
                    EXCEPT !.req = req, !.route = dec]
    /\ UNCHANGED <<max_retries_arg, accounts_file, blacklist_file, running, tokens,
                   current_index, failed_tokens, blacklisted_tokens, epoch,
                   prior_blacklisted, saves_ok, call, relay, registry>>

\* proxy_request is called with max_retries = mr, whatever the request.
Begin(d, mr) ==
    Enter(d, mr, NoRequest, Decision("none", 0, EmptyContent, NoRequest))

\* The route handler passes request req on to proxy_request (main.py:411-420).
Forward(d, req) ==
    /\ route_decision(req).kind = "dispatch"
    /\ Enter(d, DefaultMaxRetries, req, route_decision(req))

\* The route handler answers request req itself: the ping and initialized
\* replies (main.py:380-405) and the 500 of main.py:461-463.
Intercept(req) ==
    /\ running
    /\ route_decision(req).kind \in {"reply", "error"}
    /\ last' = [Step("intercept", 0, None, NoOutcome, "none", FALSE,
                      IF route_decision(req).kind = "error"
                      THEN HTTPException(500, "internal_error")
                      ELSE [kind |-> "response",
                            status |-> route_decision(req).status,
                            detail |-> "none"])
                    EXCEPT !.req = req, !.route = route_decision(req)]
    /\ UNCHANGED <<accounts_file, blacklist_file, running, tokens,
                   current_index, failed_tokens, blacklisted_tokens, disp,
                   epoch, prior_blacklisted, saves_ok, max_retries_arg,
                   nselected, picked, call, relay, registry>>

Exhausted_m(d) ==
    /\ disp' = [disp EXCEPT ![d] = IdleFrame]
    /\ last' = Step("exhausted", d, None, NoOutcome, "none", FALSE,
                    [kind |-> "response", status |-> 0, detail |-> "none"])
    /\ UNCHANGED <<nselected, picked>>
    /\ UNCHANGED <<current_index, failed_tokens>>

\* main.py:269: the loop ran out.
Exhausted(d) ==
    /\ disp' = [disp EXCEPT ![d] = IdleFrame]
    /\ last' = Step("exhausted", d, None, NoOutcome, "none", FALSE,
                    HTTPException(503, "all_retries_failed"))
    /\ UNCHANGED <<nselected, picked>>
    /\ UNCHANGED <<current_index, failed_tokens>>

NoToken_m(d, r) ==
    /\ disp' = [disp EXCEPT ![d].nsel = @ + 1,
                            ![d].nclassified = @ + 1,
                            ![d].attempt = @ + 1]
    /\ last' = [Step("select", d, None, NoOutcome, "none", FALSE, NoResult)
                    EXCEPT !.cleared = r.cleared]
    /\ UNCHANGED nselected
    /\ picked' = picked_after(
                    available_tokens(tokens, failed_tokens, blacklisted_tokens),
                    available_tokens(tokens, r.failed, blacklisted_tokens),
                    r.ret)
    /\ current_index' = r.index
    /\ failed_tokens' = r.failed

\* main.py:207-208: get_next_token returned None.
NoToken(d, r) ==
    /\ disp' = [disp EXCEPT ![d] = IdleFrame]
    /\ last' = [Step("select", d, None, NoOutcome, "none", FALSE,
                         HTTPException(503, "no_token"))
                    EXCEPT !.cleared = r.cleared]
    /\ UNCHANGED nselected
    /\ picked' = picked_after(
                    available_tokens(tokens, failed_tokens, blacklisted_tokens),
                    available_tokens(tokens, r.failed, blacklisted_tokens),
                    r.ret)
    /\ current_index' = r.index
    /\ failed_tokens' = r.failed

\* main.py:210-227: the request is sent with the token; the coroutine waits.
Send(d, r) ==
    /\ disp' = [disp EXCEPT ![d].pc = "await",
                            ![d].nsel = @ + 1,
                            ![d].ncalls = @ + 1,
                            ![d].token = r.ret,
                            ![d].avail_before =
                                get_stats(tokens, failed_tokens,
                                          blacklisted_tokens).available_tokens]
    /\ last' = [Step("select", d, r.ret, NoOutcome, "none", FALSE, NoResult)
                    EXCEPT !.cleared = r.cleared]
    /\ nselected' = nselected + 1
    /\ picked' = picked_after(
                    available_tokens(tokens, failed_tokens, blacklisted_tokens),
                    available_tokens(tokens, r.failed, blacklisted_tokens),
                    r.ret)
    /\ current_index' = r.index
    /\ failed_tokens' = r.failed

\* One pass through the head of the retry loop (main.py:205-227).
Attempt(d) ==
    /\ running
    /\ disp[d].pc = "loop"
    /\ IF ~more_attempts(disp[d].attempt, disp[d].max_retries)
       THEN Exhausted(d)
       ELSE LET r == get_next_token(tokens, failed_tokens,
                                    blacklisted_tokens, current_index)
            IN IF r.ret = None THEN NoToken(d, r) ELSE Send(d, r)
    /\ UNCHANGED <<max_retries_arg, accounts_file, blacklist_file, running, tokens,
                   blacklisted_tokens, epoch, prior_blacklisted,
                   saves_ok, call, relay, registry>>

\* The frame after an outcome that lets the loop go on.
NextAttempt(f) ==
    [f EXCEPT !.pc = "loop", !.attempt = @ + 1, !.nclassified = @ + 1,
              !.token = None, !.avail_before = 0]

\* main.py:263-267: except aiohttp.ClientError
on_client_error(f) ==
    IF is_last_attempt(f.attempt, f.max_retries)
    THEN HTTPException(503, "network_error")
    ELSE NoResult

\* main.py:250-261: any other status, body read
on_other_status(f, status) ==
    IF is_last_attempt(f.attempt, f.max_retries)
    THEN HTTPException(status, "upstream_error")
    ELSE NoResult

\* main.py:229-267: what proxy_request returns or raises on outcome o of the
\* attempt of frame f; NoResult when the loop goes on.
classify(f, o) ==
    IF o.kind = "status" /\ o.status = 200 THEN Response200
    ELSE IF o.kind = "status" /\ is_auth_failure(o.status) THEN NoResult
    ELSE IF o.kind = "status" /\ is_rate_limited(o.status) THEN NoResult
    ELSE IF o.kind = "status" THEN on_other_status(f, o.status)
    ELSE IF o.kind \in {"body_error", "client_error"} THEN on_client_error(f)
    ELSE OtherException

\* The upstream call of dispatch d ends in outcome o and is classified
\* (main.py:229-267); w is what a write of the blacklist file would end in.
Respond(d, o, w) ==
    /\ running
    /\ disp[d].pc = "await"
    /\ LET f == disp[d]
           tok == f.token
           auth == o.kind = "status" /\ is_auth_failure(o.status)
           b == blacklist_token(tokens, failed_tokens, blacklisted_tokens,
                                blacklist_file, tok, w)
           wrote == auth /\ b.changed
           res == classify(f, o)
       IN /\ (~wrote) => w = "ok"
          /\ IF auth
             THEN /\ tokens' = b.tokens
                  /\ failed_tokens' = b.failed
                  /\ blacklisted_tokens' = b.blacklisted
                  /\ blacklist_file' = b.file
                  /\ saves_ok' = (saves_ok /\ (b.changed => w = "ok"))
             ELSE /\ UNCHANGED <<tokens, blacklisted_tokens, blacklist_file,
                                 saves_ok>>
                  /\ failed_tokens' =
                        IF o.kind = "status" /\ is_rate_limited(o.status)
                        THEN mark_token_failed(failed_tokens, tok)
                        ELSE failed_tokens
          /\ disp' = [disp EXCEPT ![d] =
                        IF res = NoResult THEN NextAttempt(f) ELSE IdleFrame]
          /\ last' = [Step("classify", d, tok, o,
                           IF wrote THEN w ELSE "none", wrote, res)
                        EXCEPT !.released = releases(o)]
          /\ picked' = picked_after(
                    available_tokens(tokens, failed_tokens, blacklisted_tokens),
                    available_tokens(tokens', failed_tokens',
                                     blacklisted_tokens'),
                    None)
    /\ UNCHANGED <<max_retries_arg, accounts_file, running, current_index, epoch,
                   prior_blacklisted, nselected, call, relay, registry>>

Next ==
    \/ \E d \in Slots, mr \in 0..MaxRetriesArg : Begin(d, mr)
    \/ \E d \in Slots : Attempt(d)
    \/ \E d \in Slots, o \in Outcomes, w \in WriteOutcomes : Respond(d, o, w)
    \/ Restart

Spec == Init /\ [][Next]_vars

\* The same program with the requests spelled out: every request comes in
\* through the route handler, which answers it or calls proxy_request with
\* the default max_retries.
InitRoute ==
    /\ Init
    /\ max_retries_arg = DefaultMaxRetries

NextRoute ==
    \/ \E d \in Slots, req \in Requests : Forward(d, req)
    \/ \E req \in Requests : Intercept(req)
    \/ \E d \in Slots : Attempt(d)
    \/ \E d \in Slots, o \in Outcomes, w \in WriteOutcomes : Respond(d, o, w)
    \/ Restart

RouteSpec == InitRoute /\ [][NextRoute]_vars

\* The same program with one request at a time: a request comes in only
\* when no other is in flight, which leaves room for longer runs.
BeginSolo(mr) ==
    /\ running
    /\ mr = max_retries_arg
    /\ \A d \in Slots : disp[d].pc = "idle"
    /\ nselected + mr <= SoloSelections
    /\ disp' = [disp EXCEPT ![1] = [IdleFrame EXCEPT !.pc = "loop",
                                                     !.max_retries = mr]]
    /\ last' = Step("begin", 1, None, NoOutcome, "none", FALSE, NoResult)
    /\ UNCHANGED <<max_retries_arg, accounts_file, blacklist_file, running,
                   tokens, current_index, failed_tokens, blacklisted_tokens,
                   epoch, prior_blacklisted, saves_ok, nselected, picked,
                   call, relay, registry>>

NextSolo ==
    \/ \E mr \in 0..MaxRetriesArg : BeginSolo(mr)
    \/ Attempt(1)
    \/ \E o \in Outcomes, w \in WriteOutcomes : Respond(1, o, w)

SoloSpec == Init /\ [][NextSolo]_vars

\* The functions of the program that read no state but their arguments, each
\* applied to every argument of a bounded set.
InitFun ==
    /\ Init
    /\ max_retries_arg = DefaultMaxRetries
    /\ Len(accounts_file) = 1

Apply(fn, arg, ret) ==
    /\ call = NoCall
    /\ call' = [fn |-> fn, arg |-> arg, ret |-> ret]
    /\ UNCHANGED <<accounts_file, blacklist_file, running, tokens,
                   current_index, failed_tokens, blacklisted_tokens, disp,
                   epoch, prior_blacklisted, saves_ok, last, max_retries_arg,
                   nselected, picked, relay,
                   registry>>

\* main.py:215: proxy_request prepares the headers of an attempt
PrepareHeaders(h) == Apply("prepare_headers", h, prepare_headers(h))

\* TokenManager.load_tokens on a file and a loaded blacklist
LoadTokens(a) ==
    Apply("load_tokens", a,
          [tokens |-> load_tokens(a.lines, a.blacklisted),
           raises |-> ~startup_ok(load_tokens(a.lines, a.blacklisted))])

\* GET /blacklist
GetBlacklist(blacklisted, shown) ==
    Apply("get_blacklist", blacklisted, get_blacklist(blacklisted, shown))

NextFun ==
    \/ \E h \in InboundHeaders : PrepareHeaders(h)
    \/ \E a \in LoadArgs : LoadTokens(a)
    \/ \E b \in SUBSET LongTokens : \E c \in first_ten(b) : GetBlacklist(b, c)

FunSpec == InitFun /\ [][NextFun]_vars

\* The relay of one upstream 200 response by the route handler.  pc: created
\* (the generator of stream_response exists, its body has not started),
\* reading (the generator waits for a chunk), yielded (it is suspended at
\* its yield while the chunk is sent to the caller), read (the handler waits
\* for the whole body), done.  held: the response has not been released, so
\* that it still holds the upstream connection.
RelayUnchanged ==
    UNCHANGED <<accounts_file, blacklist_file, running, tokens,
                current_index, failed_tokens, blacklisted_tokens, disp,
                epoch, prior_blacklisted, saves_ok, last, max_retries_arg,
                nselected, picked, call, registry>>

\* main.py:422-445: proxy_request returned a response with header lines u
\* and a body of n chunks
RelayBegin(u, n) ==
    /\ relay = NoRelay
    /\ relay' = [pc |-> IF is_streaming(content_type_of(u))
                        THEN "created" ELSE "read",
                 upstream |-> u,
                 headers |-> filter_response_headers(u, EmptyDict),
                 streamed |-> is_streaming(content_type_of(u)),
                 total |-> n, sent |-> 0, held |-> TRUE, exit |-> "none"]
    /\ RelayUnchanged

\* the consumer asks the generator for the next chunk
StreamNext ==
    /\ relay.pc \in {"created", "yielded"}
    /\ relay' = [relay EXCEPT !.pc = "reading"]
    /\ RelayUnchanged

\* main.py:274-275: a chunk arrived and is yielded
StreamChunk ==
    /\ relay.pc = "reading"
    /\ relay.sent < relay.total
    /\ relay' = [relay EXCEPT !.pc = "yielded", !.sent = @ + 1]
    /\ RelayUnchanged

\* main.py:276-277: the loop inside the generator ends, because the body is
\* exhausted, the read raised, or the task was cancelled while it waited for
\* a chunk; the finally clause releases the connection
StreamEnd(how) ==
    /\ relay.pc = "reading"
    /\ how = "exhausted" => relay.sent = relay.total
    /\ relay' = [relay EXCEPT !.pc = "done", !.held = FALSE, !.exit = how]
    /\ RelayUnchanged

\* The consumer stops while the generator is not running (the caller went
\* away before the first chunk was asked for, or while a chunk was sent to
\* it).  closed: the generator's aclose() runs before the relay is over; an
\* async for loop left by an exception does not call it.  Closing a
\* generator suspended at its yield runs the finally clause; closing one
\* that never started runs nothing.
StreamAbandon(closed) ==
    /\ relay.pc \in {"created", "yielded"}
    /\ relay' = [relay EXCEPT !.pc = "done",
                              !.held = ~(closed /\ relay.pc = "yielded"),
                              !.exit = "abandoned"]
    /\ RelayUnchanged

\* The abandoned generator and response are garbage collected some time
\* after the relay.
Collected ==
    /\ relay.pc = "done"
    /\ relay.held
    /\ relay.streamed
    /\ relay' = [relay EXCEPT !.held = FALSE, !.exit = "collected"]
    /\ RelayUnchanged

\* main.py:449-450: the whole body is read, then the connection released;
\* a read that raises skips the release (main.py:461-463)
BufferedRead(ok) ==
    /\ relay.pc = "read"
    /\ relay' = [relay EXCEPT !.pc = "done", !.held = ~ok,
                              !.sent = IF ok THEN relay.total ELSE 0,
                              !.exit = IF ok THEN "read" ELSE "read_error"]
    /\ RelayUnchanged

NextRelay ==
    \/ \E u \in UpstreamHeaders, n \in 0..MaxChunks : RelayBegin(u, n)
    \/ StreamNext
    \/ StreamChunk
    \/ \E how \in {"exhausted", "read_error", "cancelled"} : StreamEnd(how)
    \/ \E closed \in BOOLEAN : StreamAbandon(closed)
    \/ Collected
    \/ \E ok \in BOOLEAN : BufferedRead(ok)

RelaySpec == InitFun /\ [][NextRelay]_vars

\* The event loop resumes every coroutine that can run, and every upstream
\* call ends (in a response or an exception) within the session's total
\* timeout (main.py:164).
FairSpec ==
    /\ Spec
    /\ \A d \in Slots : WF_vars(Attempt(d))
    /\ \A d \in Slots :
            WF_vars(\E o \in Outcomes, w \in WriteOutcomes : Respond(d, o, w))

\* ------------------------------------------------------------ properties
AuthStep == last.op = "classify" /\ last.outcome.kind = "status"
            /\ last.outcome.status \in {401, 403}

\* C1: a get_next_token call never returns a token that is in the blacklisted
\* set at the moment of the call, whatever the dispatches did before.
C1_NextNeverBlacklisted ==
    (last.op = "select" /\ last.token # None)
        => last.token \notin blacklisted_tokens

\* a token was returned by a call made after another had been blacklisted
C1_Witness ==
    /\ last.op = "select"
    /\ last.token # None
    /\ blacklisted_tokens # {}
    /\ prior_blacklisted = {}

\* C2: right after blacklist_token(t) has run, t occurs nowhere in tokens, is
\* not in failed_tokens and is in blacklisted_tokens.
C2_BlacklistedTokenGone ==
    AuthStep =>
        /\ last.token \notin Range(tokens)
        /\ last.token \notin failed_tokens
        /\ last.token \in blacklisted_tokens

\* C3: no token is in failed_tokens and in blacklisted_tokens at once.
C3_FailedBlacklistedDisjoint == failed_tokens \cap blacklisted_tokens = {}

\* C4: within one process lifetime blacklisted_tokens never loses a member
\* and tokens never gains an entry.
C4_BlacklistIrreversible ==
    [][epoch' = epoch =>
        /\ blacklisted_tokens \subseteq blacklisted_tokens'
        /\ IsSubSeq(tokens', tokens)]_vars

\* two tokens were blacklisted in one lifetime, the first is still a member
C4_Witness ==
    /\ AuthStep
    /\ last.changed
    /\ Cardinality(blacklisted_tokens) >= 2
    /\ prior_blacklisted = {}

Stats == get_stats(tokens, failed_tokens, blacklisted_tokens)

\* every frame respects the retry budget, attempts are strictly sequential,
\* and a finished dispatch holds a 200 response or an error
C7_Bounded ==
    /\ \A d \in Slots :
        LET f == disp[d]
        IN /\ f.nsel <= f.max_retries
           /\ f.ncalls <= f.max_retries
           /\ f.pc = "await" => f.nsel = f.nclassified + 1
           /\ f.pc = "loop" => f.nsel = f.nclassified
    /\ \A d \in Slots :
        (last.d = d /\ last.op \in {"select", "classify", "exhausted"}) =>
            /\ disp[d].pc = "idle" <=> last.result # NoResult
            /\ \/ last.result \in {NoResult, Response200}
               \/ last.result.kind \in {"http_error", "exception"}

\* C7: every dispatch ends, in a 200 response or an error, after at most
\* max_retries token selections and at most max_retries upstream calls, and
\* an attempt starts only when the one before it has been classified.
C7_DispatchTerminates ==
    /\ []C7_Bounded
    /\ \A d \in Slots :
            (disp[d].pc \in {"loop", "await"})
                ~> (disp[d].pc = "idle")

\* a dispatch used its whole budget: its last allowed attempt is in flight
C7_Witness ==
    \E d \in Slots :
        /\ disp[d].pc = "await"
        /\ disp[d].max_retries = MaxRetriesArg
        /\ disp[d].nsel = disp[d].max_retries
        /\ disp[d].ncalls = disp[d].max_retries

\* C8: when get_next_token returns None at the head of an attempt the
\* dispatch ends there with a 503: it sends nothing and has no next attempt.
C8_NoTokenFailsAtOnce ==
    (last.op = "select" /\ last.token = None)
        => /\ disp[last.d].pc = "idle"
           /\ last.result = HTTPException(503, "no_token")

\* an attempt found every token blacklisted
C8_Witness ==
    /\ last.op = "select"
    /\ last.token = None
    /\ blacklisted_tokens # {}
    /\ disp[last.d].pc = "idle"

\* C9: no error that reaches the caller carries 401 or 403; a 401/403 from
\* upstream blacklists the token and sends the dispatch back to the loop head.
C9_AuthStatusNeverSurfaced ==
    /\ (last.result # NoResult /\ last.result # Response200)
            => route_error_status(last.result) \notin {401, 403}
    /\ AuthStep =>
            /\ last.token \in blacklisted_tokens
            /\ disp[last.d].pc = "loop"

\* the last allowed attempt of a dispatch was answered 403
C9_Witness ==
    /\ AuthStep
    /\ last.outcome.status = 403
    /\ disp[last.d].attempt = disp[last.d].max_retries

\* dispatch d classifies a 401/403 in this step
AuthStepBy(d) ==
    /\ disp[d].pc = "await"
    /\ last'.op = "classify"
    /\ last'.d = d
    /\ last'.outcome.kind = "status"
    /\ last'.outcome.status \in {401, 403}

\* C10 as claimed: a 401/403 leaves the token blacklisted and available_tokens
\* one less than it was before the attempt.
C10_AvailableOneLess ==
    [][\A d \in Slots : AuthStepBy(d) =>
        /\ disp[d].token \in blacklisted_tokens'
        /\ Stats'.available_tokens = disp[d].avail_before - 1]_vars

\* C10: a 401/403 leaves the token blacklisted within the classifying step;
\* across that step available_tokens falls by the number of entries of tokens
\* equal to the token when the token was neither failed nor blacklisted, and
\* stays as it was otherwise.
C10_AvailableAfterAuthFailure ==
    [][\A d \in Slots : AuthStepBy(d) =>
        /\ disp[d].token \in blacklisted_tokens'
        /\ Stats'.available_tokens = Stats.available_tokens -
              (IF disp[d].token \notin failed_tokens
                  /\ disp[d].token \notin blacklisted_tokens
               THEN Count(disp[d].token, tokens) ELSE 0)]_vars

\* a pool of distinct tokens, none failed, the first 401: one token fewer
\* is available
C10_Witness ==
    /\ AuthStep
    /\ last.outcome.status = 401
    /\ Len(accounts_file) >= 2
    /\ Cardinality(Range(load_tokens(accounts_file, {}))) = Len(accounts_file)
    /\ blacklisted_tokens = {last.token}
    /\ failed_tokens = {}
    /\ Stats.available_tokens = Len(accounts_file) - 1

\* dispatch d classifies a 429 in this step
RateLimitStepBy(d) ==
    /\ disp[d].pc = "await"
    /\ last'.op = "classify"
    /\ last'.d = d
    /\ last'.outcome.kind = "status"
    /\ last'.outcome.status = 429

\* dispatch d calls get_next_token in this step
SelectStepBy(d) ==
    /\ disp[d].pc = "loop"
    /\ last'.op = "select"
    /\ last'.d = d

\* C11: a 429 for token t puts t into failed_tokens; while t is there a
\* get_next_token call returns t only if it found no token available and
\* cleared failed_tokens, and within one process lifetime t leaves
\* failed_tokens without being blacklisted only through such a clearing call.
C11_FailedUntilReset ==
    [][/\ \A d \in Slots :
            RateLimitStepBy(d) => disp[d].token \in failed_tokens'
       /\ \A t \in failed_tokens :
            /\ (\E d \in Slots : SelectStepBy(d) /\ last'.token = t) =>
                    /\ available_tokens(tokens, failed_tokens,
                                        blacklisted_tokens) = <<>>
                    /\ last'.cleared
            /\ (epoch' = epoch /\ t \notin failed_tokens'
                    /\ t \notin blacklisted_tokens') =>
                    /\ \E d \in Slots : SelectStepBy(d)
                    /\ last'.cleared
                    /\ available_tokens(tokens, failed_tokens,
                                        blacklisted_tokens) = <<>>]_vars

\* a token of the pool is temporarily failed and a get_next_token call passed
\* it over: it returned another token and left failed_tokens alone
C11_Witness ==
    /\ last.op = "select"
    /\ last.token # None
    /\ ~last.cleared
    /\ failed_tokens \cap Range(tokens) # {}
    /\ last.token \notin failed_tokens

\* C12: when tokens is not empty, every token of it is in failed_tokens and
\* none is blacklisted, a get_next_token call empties failed_tokens and
\* returns a token of tokens, not None.
C12_AllFailedResets ==
    [][\A d \in Slots :
        (/\ SelectStepBy(d)
         /\ tokens # <<>>
         /\ Range(tokens) \subseteq failed_tokens
         /\ Range(tokens) \cap blacklisted_tokens = {}) =>
            /\ failed_tokens' = {}
            /\ last'.token # None
            /\ last'.token \in Range(tokens)]_vars

\* both tokens of a two-token pool had been rate limited; the call cleared
\* failed_tokens and returned a token
C12_Witness ==
    /\ last.op = "select"
    /\ last.cleared
    /\ last.token \in Range(tokens)
    /\ Cardinality(Range(tokens)) >= 2
    /\ blacklisted_tokens = {}
    /\ failed_tokens = {}

\* C13: when every token left in tokens is blacklisted, a get_next_token call
\* returns None whatever failed_tokens and the cursor hold, and within one
\* process lifetime that situation never ends.
C13_AllBlacklistedNone ==
    [][/\ \A d \in Slots :
            (SelectStepBy(d) /\ Range(tokens) \subseteq blacklisted_tokens)
                => last'.token = None
       /\ (epoch' = epoch /\ Range(tokens) \subseteq blacklisted_tokens)
                => Range(tokens') \subseteq blacklisted_tokens']_vars

\* the call returned None with the cursor advanced and a blacklisted entry
\* still in tokens
C13_Witness ==
    /\ last.op = "select"
    /\ last.token = None
    /\ current_index > 0
    /\ tokens # <<>>
    /\ Range(tokens) \subseteq blacklisted_tokens

\* C14: while the list of available tokens stays the same, the tokens that
\* successive get_next_token calls return walk that list cyclically in file
\* order, so any Len(available) consecutive calls return every entry of it
\* exactly once; on a pool untouched since it was loaded the k-th call
\* returns tokens[(k-1) mod n].
C14_RoundRobin ==
    LET av == available_tokens(tokens, failed_tokens, blacklisted_tokens)
        n == Len(av)
    IN /\ n = 0 => picked = <<>>
       /\ n > 0 =>
            \A s \in 1..(Len(picked) - n + 1) :
                /\ \E r \in 0..(n - 1) : \A k \in 0..(n - 1) :
                        picked[s + k] = av[((r + k) % n) + 1]
                /\ \A t \in Range(av) :
                        Cardinality({k \in 0..(n - 1) : picked[s + k] = t})
                            = Count(t, av)
       /\ current_index = Len(picked) =>
            /\ av = tokens
            /\ \A k \in DOMAIN picked :
                    picked[k] = tokens[((k - 1) % Len(tokens)) + 1]

\* three dispatches of one attempt each on a fresh pool of two distinct
\* tokens, the third just answered 200: the tokens used were a, b, a
C14_Witness ==
    /\ max_retries_arg = 1
    /\ last.op = "classify"
    /\ last.result = Response200
    /\ current_index = 3
    /\ Len(picked) = 3
    /\ Len(tokens) = 2
    /\ Cardinality(Range(tokens)) = 2
    /\ picked = <<tokens[1], tokens[2], tokens[1]>>

\* dispatch d classifies the outcome of its upstream call in this step
ClassifyStepBy(d) ==
    /\ disp[d].pc = "await"
    /\ last'.op = "classify"
    /\ last'.d = d

\* C15: an upstream status other than 200, 401, 403 and 429 makes the
\* dispatch fail with that very status when it comes on the last allowed
\* attempt, and sends it to the next attempt otherwise.
C15_OtherStatusPropagated ==
    [][\A d \in Slots :
        (/\ ClassifyStepBy(d)
         /\ last'.outcome.kind \in {"status", "body_error"}
         /\ last'.outcome.status \in OtherStatuses) =>
            IF is_last_attempt(disp[d].attempt, disp[d].max_retries)
            THEN /\ last'.result.kind = "http_error"
                 /\ last'.result.status = last'.outcome.status
            ELSE /\ last'.result = NoResult
                 /\ disp'[d].pc = "loop"
                 /\ disp'[d].attempt = disp[d].attempt + 1]_vars

\* C16: a transport-level error (an aiohttp.ClientError or the timeout of
\* the call) makes the dispatch fail with 503 when it comes on the last
\* allowed attempt; otherwise the dispatch goes to its next attempt and
\* nothing reaches the caller.
C16_TransportErrorRetried ==
    [][\A d \in Slots :
        (/\ ClassifyStepBy(d)
         /\ last'.outcome.kind \in {"client_error", "exception"}) =>
            IF is_last_attempt(disp[d].attempt, disp[d].max_retries)
            THEN /\ last'.result # NoResult
                 /\ route_error_status(last'.result) = 503
            ELSE /\ last'.result = NoResult
                 /\ disp'[d].pc = "loop"
                 /\ disp'[d].attempt = disp[d].attempt + 1]_vars

\* C17: the loop of a dispatch runs out only when max_retries is 0 or the
\* last allowed attempt was answered 401, 403 or 429; the dispatch then
\* raises the 503 "all retries failed" error (unless the process is stopped
\* first), and a dispatch returns normally only with a status-200 response.
C17_ExhaustedRaises503 ==
    [][\A d \in Slots :
        /\ (/\ disp'[d] # disp[d]
            /\ disp'[d].pc = "loop"
            /\ disp'[d].attempt = disp'[d].max_retries) =>
                \/ last'.op = "begin" /\ disp'[d].max_retries = 0
                \/ /\ ClassifyStepBy(d)
                   /\ last'.outcome.kind = "status"
                   /\ last'.outcome.status \in {401, 403, 429}
        /\ (/\ disp[d].pc = "loop"
            /\ disp[d].attempt = disp[d].max_retries
            /\ disp'[d] # disp[d]
            /\ epoch' = epoch) =>
                /\ last'.op = "exhausted"
                /\ last'.d = d
                /\ last'.result = HTTPException(503, "all_retries_failed")
                /\ disp'[d].pc = "idle"
        /\ (last'.d = d /\ last'.result.kind = "response") =>
                /\ last'.op = "classify"
                /\ last'.outcome.kind = "status"
                /\ last'.outcome.status = 200
                /\ last'.result = Response200]_vars

\* the last of several attempts was answered 429 and the loop then ran out
C17_Witness ==
    /\ last.op = "exhausted"
    /\ last.result = HTTPException(503, "all_retries_failed")
    /\ max_retries_arg >= 2
    /\ failed_tokens # {}
    /\ blacklisted_tokens = {}

\* the route handler takes up an inbound request in this step
RouteStep == last'.op \in {"intercept", "begin"} /\ last' # last

\* the token pool, the blacklist file and every dispatch stay as they are:
\* no token is selected and no upstream call is made
PoolUntouched ==
    UNCHANGED <<tokens, current_index, failed_tokens, blacklisted_tokens,
                blacklist_file, disp, nselected, picked>>

\* the body sent is a JSON object whose method member is m
BodyHasMethod(req, m) ==
    /\ req.body.kind = "json"
    /\ req.body.type = "object"
    /\ req.body.method = m

\* the reply to a ping: 200 with {jsonrpc: "2.0", id: <id>, result: {}}
PingAnswered ==
    /\ last'.op = "intercept"
    /\ last'.route.kind = "reply"
    /\ last'.route.status = 200
    /\ last'.route.content =
            {<<"jsonrpc", "2.0">>, <<"id", dict_get(last'.req.body.id)>>,
             <<"result", "{}">>}
    /\ PoolUntouched

\* C18: a request of any method the route accepts whose body is a JSON object
\* with method "ping" gets 200 with {jsonrpc: "2.0", id: the request's id,
\* result: {}}; no token is selected, no upstream call is made and the token
\* pool is not changed, in every pool state.
C18_PingAnyMethod ==
    [][(RouteStep /\ BodyHasMethod(last'.req, "ping")) => PingAnswered]_vars

\* What does hold: the ping reply is given to every POST, PUT and PATCH
\* request with such a body, the methods whose body the handler reads.
PingInterceptedWhenRead ==
    [][(/\ RouteStep
        /\ last'.req.method \in {"POST", "PUT", "PATCH"}
        /\ BodyHasMethod(last'.req, "ping")) => PingAnswered]_vars

\* the reply to an initialized notification: 202 with an empty body
InitializedAnswered ==
    /\ last'.op = "intercept"
    /\ last'.route.kind = "reply"
    /\ last'.route.status = 202
    /\ last'.route.content = EmptyContent
    /\ PoolUntouched

\* C19: any request whose body is a JSON object with method
\* "notifications/initialized" gets an empty-body 202; no token is selected
\* and no upstream call is made, in every pool state.
C19_InitializedAnyRequest ==
    [][(RouteStep /\ BodyHasMethod(last'.req, "notifications/initialized"))
            => InitializedAnswered]_vars

\* What does hold: the 202 is given to every POST, PUT and PATCH request with
\* such a body.
InitializedInterceptedWhenRead ==
    [][(/\ RouteStep
        /\ last'.req.method \in {"POST", "PUT", "PATCH"}
        /\ BodyHasMethod(last'.req, "notifications/initialized"))
            => InitializedAnswered]_vars

\* two bodies are the same bytes; a request without a body is the same
\* whether it is held as None or as b""
SameBody(a, b) == a = b \/ (~truthy(a) /\ ~truthy(b))

\* C20: a request whose body is not a JSON object with method "ping" or
\* "notifications/initialized" gets no reply and no error from the
\* interceptor; it reaches proxy_request with its method and body unchanged.
C20_OthersFallThrough ==
    [][(/\ RouteStep
        /\ ~BodyHasMethod(last'.req, "ping")
        /\ ~BodyHasMethod(last'.req, "notifications/initialized")) =>
            /\ last'.op = "begin"
            /\ last'.route.kind = "dispatch"
            /\ last'.route.fwd.method = last'.req.method
            /\ SameBody(last'.route.fwd.body, last'.req.body)]_vars

\* ------------------------------------------------ request header properties
Prepared == call.fn = "prepare_headers"

\* the values of the headers of h named Accept, in any letter case
accept_of(h) == {h[k] : k \in {x \in DOMAIN h : lower(x) = "accept"}}

\* C21: the outbound headers hold no header whose name is, in any letter case,
\* host, content-length, connection, upgrade, proxy-connection,
\* proxy-authorization, te or trailers, and every other inbound header is
\* among them with its value unchanged.
C21_SkippedGoneOthersKept ==
    Prepared =>
        /\ \A k \in DOMAIN call.ret : lower(k) \notin skip_headers
        /\ \A k \in DOMAIN call.arg :
                lower(k) \notin skip_headers =>
                    k \in DOMAIN call.ret /\ call.ret[k] = call.arg[k]

\* What does hold: the skipped names are gone in every letter case, and the
\* other headers are kept when their names come in lower case.
SkippedGone ==
    Prepared => \A k \in DOMAIN call.ret : lower(k) \notin skip_headers

LowerCaseKept ==
    (Prepared /\ \A k \in DOMAIN call.arg : k = lower(k)) =>
        \A k \in DOMAIN call.arg :
            lower(k) \notin skip_headers =>
                k \in DOMAIN call.ret /\ call.ret[k] = call.arg[k]

\* C22: whatever the letter case of the inbound names, Host and Connection
\* are not sent on, and an inbound Accept value without text/event-stream is
\* sent on as that value followed by ", text/event-stream".
C22_AcceptKeptAndExtended ==
    Prepared =>
        /\ \A k \in DOMAIN call.ret : lower(k) \notin {"host", "connection"}
        /\ \A a \in DOMAIN call.arg :
                (lower(a) = "accept" /\ EventStream \notin Range(call.arg[a]))
                    => Append(call.arg[a], EventStream) \in accept_of(call.ret)

\* What does hold: the same for an Accept header named in lower case.
LowerCaseAcceptExtended ==
    (Prepared /\ "accept" \in DOMAIN call.arg
              /\ EventStream \notin Range(call.arg["accept"])) =>
        call.ret["Accept"] = Append(call.arg["accept"], EventStream)

\* C23: whatever the inbound headers, the outbound request carries an Accept
\* header whose value includes both application/json and text/event-stream.
C23_AcceptHasBoth ==
    Prepared =>
        \E v \in accept_of(call.ret) : {AppJson, EventStream} \subseteq Range(v)

\* What does hold: some outbound Accept header includes text/event-stream.
AcceptHasEventStream ==
    Prepared => \E v \in accept_of(call.ret) : EventStream \in Range(v)

\* ------------------------------------------------- /blacklist properties
\* the string s holds the string t
str_contains(s, t) ==
    \E i \in 1..(Len(s) - Len(t) + 1) : SubSeq(s, i, i + Len(t) - 1) = t

\* C26: the blacklist page lists at most 10 entries and the full value of a
\* blacklisted token, however long the token, appears in none of them.
C26_PreviewHidesTokens ==
    call.fn = "get_blacklist" =>
        /\ Cardinality(call.ret.preview) <= PreviewMax
        /\ \A t \in call.arg : \A e \in call.ret.preview :
                ~str_contains(e.token_preview, t)

\* What does hold: at most 10 entries, and a token of more than 20
\* characters appears in none.
PreviewHidesLongTokens ==
    call.fn = "get_blacklist" =>
        /\ Cardinality(call.ret.preview) <= PreviewMax
        /\ \A t \in call.arg : \A e \in call.ret.preview :
                Len(t) > PreviewLen => ~str_contains(e.token_preview, t)

\* ---------------------------------------------------- loading properties
\* the line is non-blank, has at least three fields, its last field starts
\* with sk- and is not blacklisted
Qualifies(parts, blacklisted) ==
    /\ parts # <<"">>
    /\ Len(parts) >= 3
    /\ startswith_sk(parts[Len(parts)])
    /\ parts[Len(parts)] \notin blacklisted

\* the last fields of the qualifying lines, in file order
Contributed(lines, blacklisted) ==
    LET q == SelectSeq(lines, LAMBDA p : Qualifies(p, blacklisted))
    IN [i \in 1..Len(q) |-> q[i][Len(q[i])]]

\* C27: the tokens loaded are the last fields of exactly the lines that are
\* non-blank, have at least three fields, end in a field starting with sk-
\* that is not in the loaded blacklist, in file order; the other lines are
\* skipped and do not abort the load.
C27_QualifyingLinesLoaded ==
    call.fn = "load_tokens" =>
        /\ call.ret.tokens = Contributed(call.arg.lines, call.arg.blacklisted)
        /\ call.ret.tokens # <<>> => ~call.ret.raises

\* a file with a skipped line of each kind around two loaded ones
C27_Witness ==
    /\ call.fn = "load_tokens"
    /\ call.arg.blacklisted = {"sk-a"}
    /\ call.arg.lines = <<<<"user", "pa", "ss", "sk-b">>, <<"user", "sk-a">>,
                          <<"user", "pass", "sk-b">>>>
    /\ call.ret.tokens = <<"sk-b", "sk-b">>
    /\ ~call.ret.raises

\* ---------------------------------------------------- startup properties
\* the process has just been started
Startup == last.op \in {"init", "restart"}

\* C28: a start at which no line of the account file qualifies, the lines
\* ending in a blacklisted token included, fails: the process does not run,
\* holds no token and serves no request.
C28_NoTokensNoStartup ==
    /\ (Startup /\ \A i \in DOMAIN accounts_file :
                        ~Qualifies(accounts_file[i],
                                   load_blacklist(blacklist_file)))
            => ~running
    /\ ~running => (tokens = <<>> /\ \A d \in Slots : disp[d].pc = "idle")

\* a restart on an account file whose every token is in the saved blacklist
C28_Witness ==
    /\ last.op = "restart"
    /\ ~running
    /\ blacklist_file.kind = "pickle"
    /\ \A i \in DOMAIN accounts_file :
            accounts_file[i][Len(accounts_file[i])] \in blacklist_file.val

\* C29: a start with the blacklist file missing or unreadable goes on with an
\* empty blacklist: every qualifying line of the account file is loaded,
\* tokens blacklisted in an earlier lifetime among them.
C29_UnreadableBlacklistIsEmpty ==
    (Startup /\ blacklist_file.kind \in {"missing", "corrupt"}) =>
        /\ blacklisted_tokens = {}
        /\ tokens = Contributed(accounts_file, {})
        /\ running

\* a restart on a corrupt blacklist file brought a blacklisted token back
C29_Witness ==
    /\ last.op = "restart"
    /\ blacklist_file = CorruptFile
    /\ prior_blacklisted # {}
    /\ prior_blacklisted \subseteq Range(tokens)
    /\ blacklisted_tokens = {}
    /\ running

\* C30: when the write of the blacklist file fails in blacklist_token(t), t is
\* in blacklisted_tokens, nowhere in tokens and not in failed_tokens, the
\* dispatch gets no error and goes on to its next attempt, and the file is
\* left as it was.
C30_WriteFailureHarmless ==
    [][\A d \in Slots :
        (AuthStepBy(d) /\ last'.changed /\ last'.write # "ok") =>
            /\ disp[d].token \in blacklisted_tokens'
            /\ disp[d].token \notin Range(tokens')
            /\ disp[d].token \notin failed_tokens'
            /\ last'.result = NoResult
            /\ disp'[d].pc = "loop"
            /\ disp'[d].attempt = disp[d].attempt + 1
            /\ blacklist_file' = blacklist_file]_vars

\* What does hold: the token is blacklisted and not failed, one entry of
\* tokens equal to it is gone, the dispatch goes on to its next attempt, and
\* the file is as it was or unreadable.
WriteFailureKeepsDispatching ==
    [][\A d \in Slots :
        (AuthStepBy(d) /\ last'.changed /\ last'.write # "ok") =>
            /\ disp[d].token \in blacklisted_tokens'
            /\ Count(disp[d].token, tokens') = Count(disp[d].token, tokens) - 1
            /\ disp[d].token \notin failed_tokens'
            /\ last'.result = NoResult
            /\ disp'[d].pc = "loop"
            /\ disp'[d].attempt = disp[d].attempt + 1
            /\ blacklist_file' \in {blacklist_file, CorruptFile}]_vars

\* ----------------------------------------------------- relay properties
Relayed == relay.pc # "none"

\* C24: the headers relayed with a 200 response, streamed or buffered, hold
\* no header named (in any letter case) content-length, content-encoding,
\* transfer-encoding, connection, upgrade or proxy-connection, and hold every
\* other upstream header line with its value.
C24_ResponseHeadersFiltered ==
    Relayed =>
        /\ \A k \in DOMAIN relay.headers : lower(k) \notin skip_response_headers
        /\ \A i \in DOMAIN relay.upstream :
                lower(relay.upstream[i][1]) \notin skip_response_headers =>
                    /\ relay.upstream[i][1] \in DOMAIN relay.headers
                    /\ relay.headers[relay.upstream[i][1]]
                            = relay.upstream[i][2]

\* What does hold: the skipped names are gone, every other name is relayed,
\* with the value of the last upstream line of that name.
ResponseHeadersLastValue ==
    Relayed =>
        /\ \A k \in DOMAIN relay.headers : lower(k) \notin skip_response_headers
        /\ \A i \in DOMAIN relay.upstream :
                lower(relay.upstream[i][1]) \notin skip_response_headers =>
                    /\ relay.upstream[i][1] \in DOMAIN relay.headers
                    /\ (\A j \in DOMAIN relay.upstream :
                            relay.upstream[j][1] = relay.upstream[i][1]
                                => j <= i)
                         => relay.headers[relay.upstream[i][1]]
                                = relay.upstream[i][2]

\* C25: in a streamed relay the upstream connection is held while the chunk
\* stream is going and released when it ends, whichever way it ends: once
\* the relay is over the connection is not held.
C25_StreamAlwaysReleased ==
    relay.streamed =>
        (relay.held <=> relay.pc \in {"created", "reading", "yielded"})

\* What does hold: the connection is held until the stream ends, and is
\* released at every end that the generator itself runs into.
StreamReleasedInGenerator ==
    relay.streamed =>
        /\ relay.pc \in {"created", "reading", "yielded"} => relay.held
        /\ relay.exit \in {"exhausted", "read_error", "cancelled"}
                => ~relay.held

\* ------------------------------------------- idempotence and serialization
PoolAndFile ==
    <<tokens, failed_tokens, blacklisted_tokens, current_index,
      blacklist_file>>

\* C31: blacklist_token for a token that is already blacklisted, whether the
\* first call came from the same or from another dispatch, changes neither
\* tokens, failed_tokens, blacklisted_tokens, the cursor nor the file, writes
\* nothing and raises nothing; mark_token_failed for a token already in
\* failed_tokens changes nothing either.
C31_SecondCallNoOp ==
    [][\A d \in Slots :
        /\ (AuthStepBy(d) /\ disp[d].token \in blacklisted_tokens) =>
                /\ UNCHANGED PoolAndFile
                /\ last'.write = "none"
                /\ ~last'.changed
                /\ last'.result = NoResult
        /\ (RateLimitStepBy(d) /\ disp[d].token \in failed_tokens) =>
                /\ UNCHANGED PoolAndFile
                /\ last'.result = NoResult]_vars

\* a second dispatch got 401/403 for a token the first had blacklisted
\* while both were in flight
C31_Witness ==
    /\ AuthStep
    /\ ~last.changed
    /\ last.write = "none"
    /\ last.token \in blacklisted_tokens
    /\ Len(accounts_file) = 2
    /\ \E e \in Slots : e # last.d /\ disp[e].pc # "idle"

\* C32: the steps of dispatches in flight together act on the pool one after
\* the other: within a process lifetime the cursor has advanced by one for
\* every token handed out and by nothing else, and the file always holds
\* the outcome of one whole write (the set in memory when no write failed).
C32_Serialized ==
    /\ [](epoch = 0 => current_index = nselected)
    /\ [](saves_ok =>
            /\ blacklist_file.kind # "corrupt"
            /\ load_blacklist(blacklist_file) = blacklisted_tokens)
    /\ [][epoch' = epoch =>
            current_index' - current_index = nselected' - nselected]_vars

\* two dispatches wait for upstream together after three selections and a
\* blacklist write
C32_Witness ==
    /\ \A d \in Slots : disp[d].pc = "await"
    /\ current_index = 3
    /\ blacklist_file.kind = "pickle"
    /\ blacklist_file.val = blacklisted_tokens
    /\ blacklisted_tokens # {}

\* C34: within a process lifetime the cursor never decreases: a
\* get_next_token call that returns a token adds exactly 1, a call that
\* returns None and the classification of an outcome (mark_token_failed,
\* blacklist_token) leave it as it is.
C34_CursorMonotone ==
    [][epoch' = epoch =>
        /\ current_index' >= current_index
        /\ \A d \in Slots :
            /\ (SelectStepBy(d) /\ last'.token # None)
                    => current_index' = current_index + 1
            /\ (SelectStepBy(d) /\ last'.token = None)
                    => current_index' = current_index
            /\ ClassifyStepBy(d) => current_index' = current_index]_vars

\* the cursor stands at 2 after a token came round again and a 429 was
\* classified
C34_Witness ==
    /\ last.op = "classify"
    /\ last.outcome.status = 429
    /\ current_index = 2
    /\ Len(tokens) = 1

\* ------------------------------------------------------- frame properties
PoolSets == <<tokens, failed_tokens, blacklisted_tokens>>

\* dispatch d classifies an outcome other than 401, 403 and 429 in this step
NeutralStepBy(d) ==
    /\ ClassifyStepBy(d)
    /\ ~(last'.outcome.kind = "status"
          /\ last'.outcome.status \in {401, 403, 429})

\* a token enters blacklisted_tokens only in a 401/403 step and
\* failed_tokens only in a 429 step
OnlyClassificationAdds ==
    epoch' = epoch =>
        /\ ~(blacklisted_tokens' \subseteq blacklisted_tokens)
                => \E d \in Slots : AuthStepBy(d)
        /\ ~(failed_tokens' \subseteq failed_tokens)
                => \E d \in Slots : RateLimitStepBy(d)

\* C33 as claimed: an attempt that ends in 200, in another status than 401,
\* 403 and 429 or in a transport error leaves tokens, failed_tokens and
\* blacklisted_tokens as they were from its token selection to its
\* classification; only 401/403 adds to blacklisted_tokens and only 429 to
\* failed_tokens.
C33_AttemptLeavesPool ==
    [][/\ \A d \in Slots :
            (SelectStepBy(d) \/ NeutralStepBy(d)) => UNCHANGED PoolSets
       /\ OnlyClassificationAdds]_vars

\* C33: the classification of a 200, of another status than 401, 403 and
\* 429 or of a transport error leaves tokens, failed_tokens and
\* blacklisted_tokens as they were; the token selection of an attempt leaves
\* tokens and blacklisted_tokens as they were and either leaves
\* failed_tokens too or, when no token was available, empties it; only
\* 401/403 adds to blacklisted_tokens and only 429 to failed_tokens.
C33_ClassificationLeavesPool ==
    [][/\ \A d \in Slots :
            /\ NeutralStepBy(d) => UNCHANGED PoolSets
            /\ SelectStepBy(d) =>
                    /\ UNCHANGED <<tokens, blacklisted_tokens>>
                    /\ \/ UNCHANGED failed_tokens
                       \/ /\ last'.cleared
                          /\ failed_tokens' = {}
                          /\ available_tokens(tokens, failed_tokens,
                                              blacklisted_tokens) = <<>>
       /\ OnlyClassificationAdds]_vars

\* the token selection of an attempt found no token available, emptied
\* failed_tokens and handed out a token
C33_Witness ==
    /\ last.op = "select"
    /\ last.cleared
    /\ last.token # None
    /\ failed_tokens = {}
    /\ disp[last.d].pc = "await"

\* C35: every upstream response with a status other than 200 has been
\* released when its classification is over, that is before the next attempt
\* or the error, also when reading the body of the response failed.
C35_NonOkResponsesReleased ==
    (/\ last.op = "classify"
     /\ last.outcome.kind \in {"status", "body_error"}
     /\ last.outcome.status # 200) => last.released

\* What does hold: the responses with status 401, 403, 429, and the others
\* whose body could be read, are released within the classifying step.
ReadableResponsesReleased ==
    (/\ last.op = "classify"
     /\ last.outcome.kind = "status"
     /\ last.outcome.status # 200) => last.released

\* C36: a relay that is not streamed has released the upstream response when
\* the handler is done, whether the body could be read or not, and gives
\* one response with the whole upstream body.
C36_BufferedAlwaysReleased ==
    (relay.pc = "done" /\ ~relay.streamed) =>
        /\ ~relay.held
        /\ relay.exit = "read"
        /\ relay.sent = relay.total

\* What does hold: when the body could be read the response is released
\* and the whole body is returned.
BufferedReleasedAfterRead ==
    (relay.pc = "done" /\ ~relay.streamed /\ relay.exit = "read") =>
        (~relay.held /\ relay.sent = relay.total)

\* C38: in every reachable state the counts of get_stats agree:
\* available_tokens + temporarily_failed_tokens = total_loaded_tokens, and
\* available_tokens is the number of distinct tokens get_next_token can
\* return without clearing failed_tokens.
C38_StatsConsistent ==
    /\ Stats.available_tokens + Stats.temporarily_failed_tokens
            = Stats.total_loaded_tokens
    /\ Stats.available_tokens =
            Cardinality(Range(available_tokens(tokens, failed_tokens,
                                               blacklisted_tokens)))

\* What does hold: the same while the lines of the account file hold
\* distinct tokens and no blacklisted token is in failed_tokens.
StatsConsistentOnDistinct ==
    (/\ Cardinality(Range(load_tokens(accounts_file, {}))) = Len(accounts_file)
     /\ failed_tokens \cap blacklisted_tokens = {}) => C38_StatsConsistent

\* ------------------------------------------------- reuse within a dispatch
\* dispatch d selects a token in this step, right after it classified the
\* outcome of its previous attempt
NextSelectionBy(d) ==
    /\ last.op = "classify"
    /\ last.d = d
    /\ SelectStepBy(d)
    /\ last'.token # None

AfterAuth == last.outcome.kind = "status" /\ last.outcome.status \in {401, 403}
AfterRateLimit == last.outcome.kind = "status" /\ last.outcome.status = 429

\* some token other than t is neither failed nor blacklisted
OtherAvailable(t) ==
    \E i \in DOMAIN tokens :
        /\ tokens[i] # t
        /\ tokens[i] \notin failed_tokens
        /\ tokens[i] \notin blacklisted_tokens

\* C37 as claimed: the attempt after a 401/403 on t does not use t; the
\* attempt after a 429 on t uses another token whenever another token is
\* neither failed nor blacklisted, and uses t again only when t is the one
\* candidate left after failed_tokens was cleared.
C37_NoReuseUnlessSole ==
    [][\A d \in Slots : NextSelectionBy(d) =>
        /\ AfterAuth => last'.token # last.token
        /\ (AfterRateLimit /\ OtherAvailable(last.token))
                => last'.token # last.token
        /\ (AfterRateLimit /\ last'.token = last.token)
                => Range(available_after_reset(tokens, blacklisted_tokens))
                        = {last.token}]_vars

\* C37: the attempt after a 401/403 on t does not use t; the attempt after a
\* 429 on t uses another token whenever t is still in failed_tokens and
\* another token is neither failed nor blacklisted when the attempt starts,
\* and uses t again only when no token was available and failed_tokens was
\* cleared, in which case the cursor decides among all tokens not
\* blacklisted.
C37_NoReuseUnlessReset ==
    [][\A d \in Slots : NextSelectionBy(d) =>
        /\ AfterAuth => last'.token # last.token
        /\ (AfterRateLimit /\ last.token \in failed_tokens
                           /\ OtherAvailable(last.token))
                => last'.token # last.token
        /\ (AfterRateLimit /\ last'.token = last.token)
                => /\ last'.cleared
                   /\ available_tokens(tokens, failed_tokens,
                                       blacklisted_tokens) = <<>>]_vars

\* the second attempt of the first dispatch, after a 429 on the first token,
\* went to the second token
C37_Witness ==
    /\ last.op = "select"
    /\ nselected = 2
    /\ disp[1].attempt = 1
    /\ Len(tokens) = 2
    /\ failed_tokens = {tokens[1]}
    /\ last.token = tokens[2]
    /\ last.token # tokens[1]

\* ------------------------------------------------------ the tool registry
\* src/core/registry.py and src/tools/base.py.  The coroutines of the
\* registry run on one event loop: each action below is the stretch of one
\* coroutine between two suspensions.  A coroutine suspends inside the
\* tool's init() or shutdown() (abstract, base.py:63-84), in
\* asyncio.sleep, and when it waits for _lock.

\* base.py:16-22: ToolStatus
STOPPED == "stopped"
STARTING == "starting"
RUNNING == "running"
STOPPING == "stopping"
ERROR == "error"

\* what init() or shutdown() does once it goes on: it returns True, returns
\* False, or raises
AwaitOutcomes == {"ok", "false", "raise"}

\* the dependencies arguments of register_tool: lists of distinct names
DepLists ==
    {d \in UNION {[1..n -> ToolNames] : n \in 0..MaxDeps} :
        \A i, j \in DOMAIN d : i # j => d[i] # d[j]}

\* name in self._tools
is_registered(reg, name) == reg.inst[name] # 0

\* self._tools[name].status
status_of(reg, name) == reg.instances[reg.inst[name]].status

\* registry.py:350, 378: self._tool_dependencies.get(name, [])
dependencies_of(reg, name) ==
    IF reg.deps[name] = NoDeps THEN <<>> ELSE reg.deps[name]

\* registry.py:327-338: is_tool_running
is_tool_running(reg, name) ==
    is_registered(reg, name) /\ status_of(reg, name) = RUNNING

\* registry.py:340-355: _check_dependencies (it never suspends)
check_dependencies(reg, name) ==
    \A i \in DOMAIN dependencies_of(reg, name) :
        is_tool_running(reg, dependencies_of(reg, name)[i])

\* registry.py:357-390: _topological_sort.  st: visited, temp_visited and
\* result of the code.
RECURSIVE visit(_, _, _)
RECURSIVE visit_dependencies(_, _, _, _)
visit(reg, name, st) ==
    IF name \in st.temp_visited THEN st
    ELSE IF name \in st.visited THEN st
    ELSE LET entered == [st EXCEPT !.temp_visited = @ \cup {name}]
             after == visit_dependencies(reg, dependencies_of(reg, name),
                                         1, entered)
         IN  [visited |-> after.visited \cup {name},
              temp_visited |-> after.temp_visited \ {name},
              result |-> Append(after.result, name)]

visit_dependencies(reg, ds, i, st) ==
    IF i > Len(ds) THEN st
    ELSE visit_dependencies(reg, ds, i + 1,
            IF is_registered(reg, ds[i]) THEN visit(reg, ds[i], st) ELSE st)

RECURSIVE visit_keys(_, _, _)
visit_keys(reg, k, st) ==
    IF k > Len(reg.keys) THEN st
    ELSE visit_keys(reg, k + 1,
            IF reg.keys[k] \notin st.visited
            THEN visit(reg, reg.keys[k], st) ELSE st)

topological_sort(reg) ==
    visit_keys(reg, 1,
        [visited |-> {}, temp_visited |-> {}, result |-> <<>>]).result

\* the step record of an operation: op, the operation; deps_ok, what
\* _check_dependencies said to start_tool; invoked, a tool's start() was
\* called; unmet, it was called while a dependency declared for the tool
\* was not running; ret, what the operation returned; alone and inits_ok,
\* for a start_all_tools that is over: no other coroutine took a step
\* meanwhile, and every init() it waited for returned True
RegistryStep(op) == [NoRegistryStep EXCEPT !.op = op]

\* base.py:103-113: ToolProtocol.start of instance i up to its await of
\* init(): a running tool returns True at once, any other is set to STARTING
\* and calls init().  The step records that start() was invoked, and
\* whether a dependency declared for the instance's name was not running
\* at that moment.
tool_start(reg, i) ==
    [reg EXCEPT
        !.instances[i].status = IF @ = RUNNING THEN @ ELSE STARTING,
        !.step.invoked = TRUE,
        !.step.unmet = @ \/ ~check_dependencies(reg, reg.instances[i].name)]

\* base.py:113-130: start() after init() went on
start_finished(out) == IF out = "ok" THEN RUNNING ELSE ERROR

\* base.py:132-142: ToolProtocol.stop of instance i up to its await of
\* shutdown(); the caller has seen that the tool is not stopped
tool_stop(reg, i) == [reg EXCEPT !.instances[i].status = STOPPING]

\* base.py:142-159: stop() after shutdown() went on
stop_finished(out) == IF out = "ok" THEN STOPPED ELSE ERROR

\* history: a step of another coroutine was taken while start_all_tools
\* was under way
disturbed(tk) ==
    IF tk.op = "start_all_tools" THEN [tk EXCEPT !.alone = FALSE] ELSE tk

disturb(tasks) == BagOfAll(disturbed, tasks)

HasFreeTask(reg) == BagCardinality(reg.tasks) < MaxTasks

Suspended(op, pc, name, i) ==
    [NoTask EXCEPT !.op = op, !.pc = pc, !.name = name, !.inst = i]

suspend(reg, tk) == [reg EXCEPT !.tasks = @ (+) SetToBag({tk})]

resume(reg, tk) == [reg EXCEPT !.tasks = @ (-) SetToBag({tk})]

\* start_all_tools is suspended inside its loop over self._tools.items();
\* no call of register_tool or unregister_tool is begun meanwhile
Sweeping(reg) ==
    \E tk \in BagToSet(reg.tasks) : tk.pc = "sweep_init"

RegistryUnchanged ==
    UNCHANGED <<accounts_file, blacklist_file, running, tokens,
                current_index, failed_tokens, blacklisted_tokens, disp,
                epoch, prior_blacklisted, saves_ok, last, max_retries_arg,
                nselected, picked, call, relay>>

\* registry.py:37-89: register_tool with a subclass of ToolProtocol.
\* built: the constructor of the tool class returned.
RegisterTool(name, dependencies, built) ==
    /\ ~registry.lock
    /\ ~Sweeping(registry)
    /\ built => Len(registry.instances) < MaxInstances
    /\ registry' =
        LET i == Len(registry.instances) + 1
            declared == IF dependencies # <<>>
                        THEN [registry EXCEPT !.deps[name] = dependencies]
                        ELSE registry
            created ==
                IF built
                THEN [declared EXCEPT
                        !.instances =
                            Append(@, [name |-> name, status |-> STOPPED]),
                        !.inst[name] = i,
                        !.keys = IF name \in Range(@) THEN @
                                 ELSE Append(@, name)]
                ELSE declared
        IN  [created EXCEPT
                !.tasks = disturb(@),
                !.step = [RegistryStep("register_tool")
                            EXCEPT !.ret = IF built THEN "True"
                                           ELSE "False"]]
    /\ RegistryUnchanged

\* registry.py:112-114: the name leaves the three dicts
remove_tool(reg, name) ==
    [reg EXCEPT !.keys = SelectSeq(@, LAMBDA n : n # name),
                !.inst[name] = 0,
                !.deps[name] = NoDeps]

\* registry.py:91-109: unregister_tool up to its first suspension or its
\* end; it holds _lock while it waits for the tool to stop
UnregisterTool(name) ==
    /\ ~registry.lock
    /\ ~Sweeping(registry)
    /\ LET reg == [registry EXCEPT
                    !.tasks = disturb(@),
                    !.step = RegistryStep("unregister_tool")]
       IN  IF ~is_registered(reg, name)
           THEN registry' = [reg EXCEPT !.step.ret = "False"]
           ELSE IF status_of(reg, name) = RUNNING
           THEN /\ HasFreeTask(reg)
                /\ registry' =
                    suspend([tool_stop(reg, reg.inst[name])
                                EXCEPT !.lock = TRUE],
                            Suspended("unregister_tool", "shutdown", name,
                                      reg.inst[name]))
           ELSE registry' =
                    [remove_tool(reg, name) EXCEPT !.step.ret = "True"]
    /\ RegistryUnchanged

\* registry.py:108-117 with base.py:142-159: shutdown() went on; stop()
\* returned, or raised through unregister_tool
UnregisterResumed(tk, out) ==
    /\ BagIn(tk, registry.tasks)
    /\ LET reg == [resume(registry, tk) EXCEPT
                    !.instances[tk.inst].status = stop_finished(out),
                    !.lock = FALSE,
                    !.tasks = disturb(@),
                    !.step = RegistryStep("unregister_tool")]
       IN  registry' =
            IF out = "raise" THEN [reg EXCEPT !.step.ret = "raised"]
            ELSE [remove_tool(reg, tk.name) EXCEPT !.step.ret = "True"]
    /\ RegistryUnchanged

\* registry.py:119-141 with base.py:103-113: start_tool up to its first
\* suspension or its end
StartTool(name) ==
    /\ LET reg == [registry EXCEPT
                    !.tasks = disturb(@),
                    !.step = [RegistryStep("start_tool")
                                EXCEPT !.deps_ok =
                                    check_dependencies(registry, name)]]
       IN  IF ~is_registered(reg, name)
           THEN registry' = [reg EXCEPT !.step.ret = "False"]
           ELSE IF ~check_dependencies(reg, name)
           THEN registry' = [reg EXCEPT !.step.ret = "False"]
           ELSE IF status_of(reg, name) = RUNNING
           THEN registry' =
                    [tool_start(reg, reg.inst[name]) EXCEPT
                        !.step.ret = "True"]
           ELSE /\ HasFreeTask(reg)
                /\ registry' =
                    suspend(tool_start(reg, reg.inst[name]),
                            Suspended("start_tool", "init", name,
                                      reg.inst[name]))
    /\ RegistryUnchanged

\* registry.py:141-150 with base.py:113-130: init() went on; an exception
\* of start() is caught by start_tool
StartResumed(tk, out) ==
    /\ BagIn(tk, registry.tasks)
    /\ registry' =
        [resume(registry, tk) EXCEPT
            !.instances[tk.inst].status = start_finished(out),
            !.tasks = disturb(@),
            !.step = [RegistryStep("start_tool")
                        EXCEPT !.deps_ok = TRUE,
                               !.ret = IF out = "ok" THEN "True"
                                       ELSE "False"]]
    /\ RegistryUnchanged

\* registry.py:178-195 with base.py:132-142: stop_tool up to its first
\* suspension or its end
StopTool(name) ==
    /\ LET reg == [registry EXCEPT
                    !.tasks = disturb(@),
                    !.step = RegistryStep("stop_tool")]
       IN  IF ~is_registered(reg, name)
           THEN registry' = [reg EXCEPT !.step.ret = "False"]
           ELSE IF status_of(reg, name) = STOPPED
           THEN registry' = [reg EXCEPT !.step.ret = "True"]
           ELSE /\ HasFreeTask(reg)
                /\ registry' =
                    suspend(tool_stop(reg, reg.inst[name]),
                            Suspended("stop_tool", "shutdown", name,
                                      reg.inst[name]))
    /\ RegistryUnchanged

\* registry.py:195-204 with base.py:142-159: shutdown() went on
StopResumed(tk, out) ==
    /\ BagIn(tk, registry.tasks)
    /\ registry' =
        [resume(registry, tk) EXCEPT
            !.instances[tk.inst].status = stop_finished(out),
            !.tasks = disturb(@),
            !.step = [RegistryStep("stop_tool")
                        EXCEPT !.ret = IF out = "ok" THEN "True"
                                       ELSE "False"]]
    /\ RegistryUnchanged

\* registry.py:230-245 with base.py:161-165: restart_tool up to its first
\* suspension: restart() calls stop(), which returns at once for a stopped
\* tool, and then sleeps
RestartTool(name) ==
    /\ LET reg == [registry EXCEPT
                    !.tasks = disturb(@),
                    !.step = RegistryStep("restart_tool")]
       IN  IF ~is_registered(reg, name)
           THEN registry' = [reg EXCEPT !.step.ret = "False"]
           ELSE /\ HasFreeTask(reg)
                /\ registry' =
                    IF status_of(reg, name) = STOPPED
                    THEN suspend(reg,
                            Suspended("restart_tool", "sleep", name,
                                      reg.inst[name]))
                    ELSE suspend(tool_stop(reg, reg.inst[name]),
                            Suspended("restart_tool", "shutdown", name,
                                      reg.inst[name]))
    /\ RegistryUnchanged

\* base.py:164-165 with 142-159: shutdown() went on inside restart(); an
\* exception of stop() leaves restart_tool, anything else goes to the sleep
RestartStopped(tk, out) ==
    /\ BagIn(tk, registry.tasks)
    /\ LET reg == [resume(registry, tk) EXCEPT
                    !.instances[tk.inst].status = stop_finished(out),
                    !.tasks = disturb(@),
                    !.step = RegistryStep("restart_tool")]
       IN  registry' =
            IF out = "raise"
            THEN [reg EXCEPT !.step.ret = "raised"]
            ELSE suspend(reg, [tk EXCEPT !.pc = "sleep"])
    /\ RegistryUnchanged

\* base.py:165-166 with 103-113: the sleep is over and restart() calls
\* start(); no dependency is looked at
RestartSlept(tk) ==
    /\ BagIn(tk, registry.tasks)
    /\ LET reg == [resume(registry, tk) EXCEPT
                    !.tasks = disturb(@),
                    !.step = RegistryStep("restart_tool")]
       IN  registry' =
            IF reg.instances[tk.inst].status = RUNNING
            THEN [tool_start(reg, tk.inst) EXCEPT !.step.ret = "True"]
            ELSE suspend(tool_start(reg, tk.inst),
                         [tk EXCEPT !.pc = "init"])
    /\ RegistryUnchanged

\* base.py:113-130: init() went on inside restart(); an exception of
\* start() leaves restart_tool
RestartStarted(tk, out) ==
    /\ BagIn(tk, registry.tasks)
    /\ registry' =
        [resume(registry, tk) EXCEPT
            !.instances[tk.inst].status = start_finished(out),
            !.tasks = disturb(@),
            !.step = [RegistryStep("restart_tool")
                        EXCEPT !.ret = IF out = "ok" THEN "True"
                                       ELSE IF out = "false"
                                       THEN "False" ELSE "raised"]]
    /\ RegistryUnchanged

\* registry.py:152-176: start_all_tools from the point tk stands at up to
\* its next suspension or its end.  pc first: the loop over sorted_tools
\* stands before entry pos; pc sweep: the loop over self._tools.items()
\* stands before entry pos of the dict, whose iterator raises when the
\* dict has changed its size; init, sweep_init: suspended in init() of the
\* tool started by the first or the second loop.  The results dict is left
\* out.
RECURSIVE start_all_run(_, _)
start_all_run(reg, tk) ==
    IF tk.pc = "first"
    THEN IF tk.pos > Len(tk.sorted)
         THEN start_all_run(reg, [tk EXCEPT !.pc = "sweep", !.pos = 1,
                                            !.size = Len(reg.keys)])
         ELSE LET name == tk.sorted[tk.pos]
                  on == [tk EXCEPT !.pos = @ + 1]
              IN  IF ~is_registered(reg, name) THEN start_all_run(reg, on)
                  ELSE IF ~check_dependencies(reg, name)
                  THEN start_all_run(reg, on)
                  ELSE IF status_of(reg, name) = RUNNING
                  THEN start_all_run(tool_start(reg, reg.inst[name]),
                            [on EXCEPT !.started = @ \cup {name}])
                  ELSE [reg |-> tool_start(reg, reg.inst[name]),
                        tk |-> [tk EXCEPT !.pc = "init", !.name = name,
                                          !.inst = reg.inst[name]]]
    ELSE IF Len(reg.keys) # tk.size
         THEN [reg |-> reg, tk |-> [tk EXCEPT !.pc = "raised"]]
    ELSE IF tk.pos > Len(reg.keys)
         THEN [reg |-> reg, tk |-> [tk EXCEPT !.pc = "returned"]]
    ELSE LET name == reg.keys[tk.pos]
             on == [tk EXCEPT !.pos = @ + 1]
         IN  IF name \in tk.started \/ status_of(reg, name) # STOPPED
             THEN start_all_run(reg, on)
             ELSE IF ~check_dependencies(reg, name)
             THEN start_all_run(reg, on)
             ELSE [reg |-> tool_start(reg, reg.inst[name]),
                   tk |-> [tk EXCEPT !.pc = "sweep_init", !.name = name,
                                     !.inst = reg.inst[name]]]

\* the registry after start_all_tools ran on from tk
start_all_goes_on(reg, tk) ==
    LET run == start_all_run(reg, tk)
    IN  IF run.tk.pc \in {"returned", "raised"}
        THEN [run.reg EXCEPT !.step.ret = run.tk.pc,
                             !.step.alone = run.tk.alone,
                             !.step.inits_ok = run.tk.inits_ok]
        ELSE suspend(run.reg, run.tk)

\* the start_all_tools under way (one at a time is followed)
StartingAll(reg) ==
    {tk \in BagToSet(reg.tasks) : tk.op = "start_all_tools"}

\* registry.py:152-176: start_all_tools is called
StartAllTools ==
    /\ StartingAll(registry) = {}
    /\ HasFreeTask(registry)
    /\ registry' =
        start_all_goes_on(
            [registry EXCEPT !.step = RegistryStep("start_all_tools")],
            [NoTask EXCEPT
                !.op = "start_all_tools", !.pc = "first",
                !.sorted = topological_sort(registry), !.pos = 1,
                !.alone = registry.tasks = EmptyBag,
                !.inits_ok = TRUE])
    /\ RegistryUnchanged

\* registry.py:165-176 with base.py:113-130: init() of the tool that
\* start_all_tools started went on; the loop it stands in goes on
StartAllResumed(out) ==
    /\ StartingAll(registry) # {}
    /\ LET tk == CHOOSE x \in StartingAll(registry) : TRUE
       IN  registry' =
            start_all_goes_on(
                [resume(registry, tk) EXCEPT
                    !.instances[tk.inst].status = start_finished(out),
                    !.step = RegistryStep("start_all_tools")],
                [tk EXCEPT
                    !.pc = IF @ = "init" THEN "first" ELSE "sweep",
                    !.pos = @ + 1,
                    !.started = IF tk.pc = "init" /\ out = "ok"
                                THEN @ \cup {tk.name} ELSE @,
                    !.inits_ok = @ /\ out = "ok"])
    /\ RegistryUnchanged

\* One registry on one event loop, its coroutines interleaved.
InstanceIds == 1..MaxInstances

\* registry.py:405-418: get_tool_registry constructed the registry
InitRegistry ==
    /\ InitProxy
    /\ max_retries_arg = DefaultMaxRetries
    /\ Len(accounts_file) = 1
    /\ registry = EmptyRegistry

NextRegistry ==
    \/ \E name \in ToolNames, d \in DepLists, built \in BOOLEAN :
            RegisterTool(name, d, built)
    \/ \E name \in ToolNames : UnregisterTool(name)
    \/ \E name \in ToolNames, i \in InstanceIds, out \in AwaitOutcomes :
            UnregisterResumed(
                Suspended("unregister_tool", "shutdown", name, i), out)
    \/ \E name \in ToolNames : StartTool(name)
    \/ \E name \in ToolNames, i \in InstanceIds, out \in AwaitOutcomes :
            StartResumed(Suspended("start_tool", "init", name, i), out)
    \/ \E name \in ToolNames : StopTool(name)
    \/ \E name \in ToolNames, i \in InstanceIds, out \in AwaitOutcomes :
            StopResumed(Suspended("stop_tool", "shutdown", name, i), out)
    \/ \E name \in ToolNames : RestartTool(name)
    \/ \E name \in ToolNames, i \in InstanceIds, out \in AwaitOutcomes :
            RestartStopped(
                Suspended("restart_tool", "shutdown", name, i), out)
    \/ \E name \in ToolNames, i \in InstanceIds :
            RestartSlept(Suspended("restart_tool", "sleep", name, i))
    \/ \E name \in ToolNames, i \in InstanceIds, out \in AwaitOutcomes :
            RestartStarted(Suspended("restart_tool", "init", name, i), out)
    \/ StartAllTools
    \/ \E out \in AwaitOutcomes : StartAllResumed(out)

RegistrySpec == InitRegistry /\ [][NextRegistry]_vars

\* ------------------------------------------- properties of the registry
\* the names a tool declares as its dependencies
declared(reg, name) == Range(dependencies_of(reg, name))

Registered(reg) == {n \in ToolNames : is_registered(reg, n)}

\* the names reached from the names in S along at most n dependencies
RECURSIVE reached(_, _, _)
reached(reg, S, n) ==
    IF n = 0 THEN S
    ELSE reached(reg, S \cup UNION {declared(reg, x) : x \in S}, n - 1)

\* no registered tool depends on itself, directly or through others
Acyclic(reg) ==
    \A a \in Registered(reg) :
        a \notin reached(reg, declared(reg, a), Cardinality(ToolNames))

\* every dependency a registered tool declares is a registered tool
DependenciesRegistered(reg) ==
    \A a \in Registered(reg) : declared(reg, a) \subseteq Registered(reg)

\* the registry never calls a tool's start() while a dependency declared
\* for the tool is not running
StartedWithDependenciesRunning == ~registry.step.unmet

\* start_tool returns False and calls no start() when a dependency is not
\* running
StartToolRefuses ==
    (registry.step.op = "start_tool" /\ ~registry.step.deps_ok)
        => (registry.step.ret = "False" /\ ~registry.step.invoked)

\* start_all_tools, left alone on an acyclic graph of registered tools
\* whose init() all returned True, leaves every registered tool running
StartAllToolsStartsAll ==
    ( /\ registry.step.op = "start_all_tools"
      /\ registry.step.ret = "returned"
      /\ registry.step.alone
      /\ registry.step.inits_ok
      /\ Acyclic(registry)
      /\ DependenciesRegistered(registry) )
        => \A n \in Registered(registry) : status_of(registry, n) = RUNNING

\* _topological_sort lists every registered tool exactly once
SortListsEachOnce ==
    /\ Len(topological_sort(registry)) = Len(registry.keys)
    /\ Range(topological_sort(registry)) = Range(registry.keys)

\* in the list of _topological_sort of an acyclic graph a tool comes after
\* the registered tools it depends on
SortPutsDependenciesFirst ==
    Acyclic(registry) =>
        LET s == topological_sort(registry)
        IN  \A i, j \in DOMAIN s :
                s[j] \in declared(registry, s[i]) => j < i

\* C39: the registry never starts a tool while a dependency declared for
\* it is not running: start_tool returns False without calling start()
\* when a dependency is not running; start_all_tools, run on an acyclic
\* graph of registered tools whose init() all succeed, leaves every
\* registered tool running; _topological_sort ends on every graph and
\* lists each registered tool exactly once.
C39_DependenciesRunning ==
    /\ StartedWithDependenciesRunning
    /\ StartToolRefuses
    /\ StartAllToolsStartsAll
    /\ SortListsEachOnce

\* What does hold: start_tool and start_all_tools call start() only with
\* every declared dependency running; restart_tool is the operation that
\* does not look at the dependencies.
StartToolChecksDependencies ==
    /\ registry.step.op # "restart_tool" => ~registry.step.unmet
    /\ StartToolRefuses
    /\ StartAllToolsStartsAll
    /\ SortListsEachOnce
    /\ SortPutsDependenciesFirst

\* C40: every tool instance that is starting or running is the instance
\* the registry holds under its name.
C40_ActiveInstancesRegistered ==
    \A i \in DOMAIN registry.instances :
        registry.instances[i].status \in {STARTING, RUNNING}
            => registry.inst[registry.instances[i].name] = i

====
